---- MODULE Spec2Model ----
(***************************************************************************)
(* KeyVault Pro: the browser extension's vault engine.                     *)
(*                                                                         *)
(* StorageManager, the background script (message handlers and the alarm   *)
(* listener) and EncryptionService live in src/cli/README.md, lines        *)
(* 40-988.  chrome.storage.local holds two records: 'vaultData' and        *)
(* 'passwordHash'.  StorageManager.initialize is never called by the       *)
(* background script, so the first read of 'vaultData' yields {}.          *)
(***************************************************************************)
EXTENDS Integers, Sequences, FiniteSets, TLC

(***************************************************************************)
(* Bounds of the model and the small input sets.                           *)
(***************************************************************************)
MaxKeys == 2          \* stored entries (addKey and importVault are guarded)
MaxUsage == 1         \* recordKeyUsage is guarded by usageCount < MaxUsage
MaxAudit == 3         \* audited requests are guarded by the log's length
MaxTime == 5          \* the clock of SpecTime advances up to MaxTime
MinuteTicks == 3      \* clock ticks per minute (a tick is 20 s)
MaxHalfHours == 4     \* the clock of SpecMcp advances up to MaxHalfHours half hours
MaxKeyLength == 3     \* generateKey is asked for up to MaxKeyLength characters
MaxProcs == 2         \* requests handleMessage has in flight at once

Passwords == {"pw1", "pw2"}
Colors == {"#00A67E"}
AutoLockChoices == {0, 1}

\* JavaScript null; TextEncoder.encode(null) encodes the string "null".
Null == "null"
\* lastUsed = null, expiresAt = null, lastActivity = undefined.
NoTime == 0 - 1

(***************************************************************************)
(* EncryptionService (symbolic PBKDF2 and AES-GCM).                        *)
(***************************************************************************)
Salts == {"salt"}

deriveKey(password, salt) == <<"PBKDF2", password, salt>>

\* salt + iv + AES-GCM ciphertext of data; the iv is carried by the salt here.
encryptData(data, password, salt) ==
  [kind |-> "gcm", salt |-> salt, key |-> deriveKey(password, salt), pt |-> data]

\* A value that never came out of encryptData (a raw string stored as keyValue).
RawValue(s) == [kind |-> "raw", salt |-> "", key |-> <<>>, pt |-> s]

CanDecrypt(c, password) == c.kind = "gcm" /\ deriveKey(password, c.salt) = c.key

DecryptError == "Decryption failed"

\* [ok, value]: the plaintext, or the thrown 'Decryption failed' error.
decryptData(c, password) ==
  IF CanDecrypt(c, password) THEN [ok |-> TRUE, value |-> c.pt]
  ELSE [ok |-> FALSE, value |-> DecryptError]

NoHash == <<>>

hashPassword(password, salt) == <<salt, deriveKey(password, salt)>>

constantTimeEqual(a, b) == a = b

\* The comparison branch of verifyMasterPassword (a hash is stored).
HashMatches(stored, password) ==
  constantTimeEqual(stored[2], deriveKey(password, stored[1]))

\* A verifyMasterPassword that skips the comparison.
verifyMasterPassword_NoCompare(stored, password, salt) ==
  IF stored = NoHash
  THEN [valid |-> TRUE, hash |-> hashPassword(password, salt)]
  ELSE [valid |-> TRUE, hash |-> stored]

\* verifyMasterPassword: [valid, hash']; with no stored hash the first
\* password is hashed, stored and accepted.
verifyMasterPassword(stored, password, salt) ==
  IF stored = NoHash
  THEN [valid |-> TRUE, hash |-> hashPassword(password, salt)]
  ELSE [valid |-> HashMatches(stored, password), hash |-> stored]

(***************************************************************************)
(* StorageManager: the 'vaultData' record and the methods, as functions of *)
(* the record read from chrome.storage.  A method's result is              *)
(* [err, data, val]: the thrown error ("" for none), the record as last    *)
(* written, and the returned value.                                        *)
(***************************************************************************)
DefaultAutoLockMinutes == 15
AuditLimit == 1000

LockedError == "Vault is locked"
NotFoundError == "Key not found"
InvalidPasswordError == "Invalid master password"
\* data.keys.find / .filter / .map on a record with no keys array.
TypeErrorMsg == "TypeError: Cannot read properties of undefined"

\* A settings object is a function on the names of the fields it defines.
SettingsObj(autoLock, audit) ==
  [f \in {"autoLockMinutes", "enableAuditLog"} |->
     IF f = "autoLockMinutes" THEN autoLock ELSE audit]

EmptyObj == [f \in {} |-> 0]

getDefaultSettings == SettingsObj(DefaultAutoLockMinutes, TRUE)

\* What the first getStorageData resolves to: result.vaultData || {}.
EmptyData ==
  [initialized |-> FALSE, keysDefined |-> FALSE, keys |-> <<>>,
   settingsDefined |-> FALSE, settings |-> EmptyObj,
   auditLog |-> <<>>, lastActivity |-> NoTime]

\* {...a, ...b}
Spread(a, b) == b @@ a

getSettings(data) ==
  IF data.settingsDefined THEN data.settings ELSE getDefaultSettings

\* settings.enableAuditLog as a condition (undefined is falsy).
AuditEnabled(settings) ==
  "enableAuditLog" \in DOMAIN settings /\ settings["enableAuditLog"]

\* settings.autoLockMinutes > 0 (undefined > 0 is false).
AutoLockPositive(settings) ==
  "autoLockMinutes" \in DOMAIN settings /\ settings["autoLockMinutes"] > 0

\* op: the request; arg: its id, password or service name; called: an
\* authenticated StorageManager method was invoked; err: the error reported
\* ("" on success); val: the value returned.
Response(op, arg, called, err, val) ==
  [op |-> op, arg |-> arg, called |-> called, err |-> err, val |-> val]

R(err, data, val) == [err |-> err, data |-> data, val |-> val]

OrStr(x, d) == IF x = "" THEN d ELSE x

updateLastActivity(data, t) == [data EXCEPT !.lastActivity = t]

\* The entry addKey builds from the form's record.
NewKey(keyData, encryptedValue, id, color, t) ==
  [id |-> id,
   serviceName |-> keyData.serviceName,
   keyValue |-> encryptedValue,
   environment |-> OrStr(keyData.environment, "production"),
   tags |-> keyData.tags,
   createdAt |-> t,
   lastUsed |-> NoTime,
   usageCount |-> 0,
   expiresAt |-> keyData.expiresAt,
   notes |-> keyData.notes,
   domains |-> keyData.domains,
   color |-> color,
   favorite |-> keyData.favorite,
   rateLimit |-> keyData.rateLimit,
   estimatedCost |-> 0]

\* data.keys.push(newKey), on data.keys || [].
PushKey(data, newKey) ==
  [data EXCEPT !.keysDefined = TRUE, !.keys = Append(data.keys, newKey)]

\* An addKey without the isUnlocked check.
SM_addKey_Unchecked(data, unlocked, sk, keyData, id, color, salt, t) ==
  LET enc == encryptData(keyData.keyValue, sk, salt)
      newKey == NewKey(keyData, enc, id, color, t)
  IN R("", updateLastActivity(PushKey(data, newKey), t), id)

SM_addKey(data, unlocked, sk, keyData, id, color, salt, t) ==
  IF ~unlocked THEN R(LockedError, data, 0)
  ELSE LET enc == encryptData(keyData.keyValue, sk, salt)
           newKey == NewKey(keyData, enc, id, color, t)
       IN R("", updateLastActivity(PushKey(data, newKey), t), id)

\* data.keys.findIndex(k => k.id === id): 0 when there is none.
IndexOfId(keys, id) ==
  IF \E i \in 1..Len(keys) : keys[i].id = id
  THEN CHOOSE i \in 1..Len(keys) :
         keys[i].id = id /\ \A j \in 1..(i - 1) : keys[j].id # id
  ELSE 0

\* key.lastUsed || 0
LastUsedOr0(k) == IF k.lastUsed = NoTime THEN 0 ELSE k.lastUsed

\* The comparator of getAllKeys: negative when a sorts before b.
CompareKeys(a, b) ==
  IF a.favorite /\ ~b.favorite THEN 0 - 1
  ELSE IF ~a.favorite /\ b.favorite THEN 1
  ELSE LastUsedOr0(b) - LastUsedOr0(a)

\* Array.prototype.sort is stable: x goes before the first element it
\* strictly precedes.
InsertSorted(x, s) ==
  LET before == {i \in 1..Len(s) : CompareKeys(x, s[i]) < 0}
      pos == IF before = {} THEN Len(s) + 1
             ELSE CHOOSE i \in before : \A j \in before : i <= j
  IN SubSeq(s, 1, pos - 1) \o <<x>> \o SubSeq(s, pos, Len(s))

RECURSIVE SortKeys(_)
SortKeys(s) ==
  IF s = <<>> THEN <<>>
  ELSE InsertSorted(s[Len(s)], SortKeys(SubSeq(s, 1, Len(s) - 1)))

\* The loop of getAllKeys: entries that fail to decrypt are left out.
RECURSIVE DecryptAll(_, _)
DecryptAll(keys, sk) ==
  IF keys = <<>> THEN <<>>
  ELSE LET k == keys[1]
           d == decryptData(k.keyValue, sk)
           rest == DecryptAll(Tail(keys), sk)
       IN IF d.ok THEN <<[k EXCEPT !.keyValue = d.value]>> \o rest ELSE rest

SM_getAllKeys(data, unlocked, sk, t) ==
  IF ~unlocked THEN R(LockedError, data, <<>>)
  ELSE R("", updateLastActivity(data, t), SortKeys(DecryptAll(data.keys, sk)))

SM_getKey(data, unlocked, sk, id, t) ==
  IF ~unlocked THEN R(LockedError, data, 0)
  ELSE IF ~data.keysDefined THEN R(TypeErrorMsg, data, 0)
  ELSE LET i == IndexOfId(data.keys, id) IN
    IF i = 0 THEN R(NotFoundError, data, 0)
    ELSE LET d == decryptData(data.keys[i].keyValue, sk) IN
      IF ~d.ok THEN R(DecryptError, data, 0)
      ELSE R("", updateLastActivity(data, t),
             [data.keys[i] EXCEPT !.keyValue = d.value])

\* { ...data.keys[keyIndex], ...updates }: `updates` is the object the
\* message carries, a function on the names of the fields it defines.
MergeKey(key, updates, keyValue) ==
  Spread(key, IF "keyValue" \in DOMAIN updates
              THEN [updates EXCEPT !["keyValue"] = keyValue]
              ELSE updates)

\* if (updates.keyValue) it is encrypted; an empty value is stored as it is.
UpdatedValue(updates, sk, salt) ==
  IF "keyValue" \notin DOMAIN updates THEN RawValue("")
  ELSE IF updates["keyValue"] # "" THEN encryptData(updates["keyValue"], sk, salt)
  ELSE RawValue(updates["keyValue"])

SM_updateKey(data, unlocked, sk, id, updates, salt, t) ==
  IF ~unlocked THEN R(LockedError, data, 0)
  ELSE IF ~data.keysDefined THEN R(TypeErrorMsg, data, 0)
  ELSE LET i == IndexOfId(data.keys, id) IN
    IF i = 0 THEN R(NotFoundError, data, 0)
    ELSE LET merged == MergeKey(data.keys[i], updates,
                                UpdatedValue(updates, sk, salt))
         IN R("", updateLastActivity([data EXCEPT !.keys[i] = merged], t), 0)

SM_deleteKey(data, unlocked, id, t) ==
  IF ~unlocked THEN R(LockedError, data, 0)
  ELSE IF ~data.keysDefined THEN R(TypeErrorMsg, data, 0)
  ELSE LET keep(k) == k.id # id
       IN R("", updateLastActivity(
                  [data EXCEPT !.keys = SelectSeq(data.keys, keep)], t), 0)

SeqContains(s, x) == \E i \in 1..Len(s) : s[i] = x

\* A recordKeyUsage that pushes every domain it is given.
UsedKey_AlwaysPush(key, domain, t) ==
  [key EXCEPT !.lastUsed = t,
              !.usageCount = key.usageCount + 1,
              !.domains = IF domain # "" THEN Append(key.domains, domain)
                          ELSE key.domains]

\* The body of `if (key) { ... }` in recordKeyUsage, on the entry found.
UsedKey(key, domain, t) ==
  [key EXCEPT !.lastUsed = t,
              !.usageCount = key.usageCount + 1,
              !.domains = IF domain # "" /\ ~SeqContains(key.domains, domain)
                          THEN Append(key.domains, domain)
                          ELSE key.domains]

SM_recordKeyUsage(data, unlocked, id, domain, t) ==
  IF ~unlocked THEN R(LockedError, data, 0)
  ELSE IF ~data.keysDefined THEN R(TypeErrorMsg, data, 0)
  ELSE LET i == IndexOfId(data.keys, id) IN
    IF i = 0 THEN R("", data, 0)
    ELSE R("", updateLastActivity(
                 [data EXCEPT !.keys[i] = UsedKey(data.keys[i], domain, t)], t), 0)

\* data.auditLog.unshift(entry), then the cut to the newest AuditLimit.
\* (The entry's own generated id is left out: nothing reads it.)
\* An unshift that never cuts the log.
UnshiftAudit_NoCut(log, action, t) ==
  <<[action |-> action, timestamp |-> t]>> \o log

UnshiftAudit(log, action, t) ==
  LET l == <<[action |-> action, timestamp |-> t]>> \o log
  IN IF Len(l) > AuditLimit THEN SubSeq(l, 1, AuditLimit) ELSE l

\* An addAuditLog that does not consult the enableAuditLog setting.
AuditWrite_Ungated(data, settingsData, action, t) ==
  [data EXCEPT !.auditLog = UnshiftAudit(data.auditLog, action, t)]

\* addAuditLog: `data` and `settingsData` are its two reads of storage.
AuditWrite(data, settingsData, action, t) ==
  IF ~AuditEnabled(getSettings(settingsData)) THEN data
  ELSE [data EXCEPT !.auditLog = UnshiftAudit(data.auditLog, action, t)]

SM_addAuditLog(data, action, t) == AuditWrite(data, data, action, t)

SM_getAuditLog(data, limit) ==
  SubSeq(data.auditLog, 1, IF limit < Len(data.auditLog) THEN limit
                           ELSE Len(data.auditLog))

\* What exportData returns and JSON.stringify keeps.
ExportOf(data, t) ==
  [keysDefined |-> data.keysDefined, keys |-> data.keys,
   settingsDefined |-> data.settingsDefined, settings |-> data.settings,
   exportedAt |-> t]

SM_exportData(data, unlocked, t) ==
  IF ~unlocked THEN R(LockedError, data, 0)
  ELSE R("", data, ExportOf(data, t))

ServiceNames(keys) == {keys[i].serviceName : i \in 1..Len(keys)}

\* A merge that appends every incoming key, stored or not.
ImportMerge_AppendAll(data, importedData) ==
  [data EXCEPT !.keys = data.keys \o importedData.keys,
               !.settingsDefined = TRUE,
               !.settings = Spread(data.settings, importedData.settings)]

\* importData's merge: the incoming keys whose serviceName is not stored
\* are appended as they are; the settings objects are spread together.
ImportMerge(data, importedData) ==
  LET existingServices == ServiceNames(data.keys)
      isNew(k) == k.serviceName \notin existingServices
      newKeys == SelectSeq(importedData.keys, isNew)
  IN [data EXCEPT !.keys = data.keys \o newKeys,
                  !.settingsDefined = TRUE,
                  !.settings = Spread(data.settings, importedData.settings)]

SM_importData(data, unlocked, importedData) ==
  IF ~unlocked THEN R(LockedError, data, 0)
  ELSE IF ~data.keysDefined \/ ~importedData.keysDefined
       THEN R(TypeErrorMsg, data, 0)
  ELSE R("", ImportMerge(data, importedData), 0)

SM_updateSettings(data, newSettings) ==
  [data EXCEPT !.settingsDefined = TRUE,
               !.settings = Spread(getSettings(data), newSettings)]

SM_getLastActivity(data, t) ==
  IF data.lastActivity = NoTime \/ data.lastActivity = 0 THEN t
  ELSE data.lastActivity

(***************************************************************************)
(* State.                                                                  *)
(***************************************************************************)
VARIABLES
  passwordHash,   \* chrome.storage.local 'passwordHash'
  vaultData,      \* chrome.storage.local 'vaultData'
  isUnlocked,     \* StorageManager.isUnlocked
  sessionKey,     \* StorageManager.sessionKey
  now,            \* Date.now(), in ticks
  autoLockAlarm,  \* when the 'auto-lock' alarm fires; NoTime when not set
  checkAlarm,     \* when the periodic 'check-auto-lock' alarm fires next
  nextId,         \* how many ids generateId has handed out
  resp,           \* the last request handled and its response
  lastAuth,       \* when the last authenticated call or unlock succeeded
  settingsAt,     \* when updateSettings last ran
  procs,          \* the requests handleMessage has in flight, by slot
  base,           \* the stored vault data when the first of them arrived
  disk,           \* the files outside chrome.storage, by role
  cli,            \* the running keyvault command, if any
  mcp,            \* the MCP server process
  knownBreachedPrefixes  \* BreachDetector.knownBreachedPrefixes

\* The files and the processes of the command line tool and the MCP server.
fileVars == <<disk, cli, mcp>>

vars == <<passwordHash, vaultData, isUnlocked, sessionKey, now, autoLockAlarm,
          checkAlarm, nextId, resp, lastAuth, settingsAt, procs, base,
          fileVars, knownBreachedPrefixes>>

\* A file: absent, whole (its parsed content), or cut short by a write that
\* did not finish.
NoFile == [state |-> "absent", value |-> <<>>]
File(v) == [state |-> "whole", value |-> v]
PartialFile == [state |-> "partial", value |-> <<>>]

\* backup: the .kvp file the popup downloads; vault: ~/.keyvault/vault.json;
\* session: ~/.keyvault/mcp-session.json; export: the file `keyvault export`
\* writes.
NoFiles == [backup |-> NoFile, vault |-> NoFile, session |-> NoFile,
            export |-> NoFile]

\* No command running; the MCP server as constructed.
IdleCli == [pc |-> "idle", pending |-> <<>>, before |-> NoFile]
NewMcp ==
  [sessionKey |-> Null, pc |-> "idle", pending |-> <<>>, before |-> NoFile]

\* generateId: a fresh id on every call.
IdNames == <<"k1", "k2", "k3">>
generateId(n) == IdNames[n + 1]

\* The popup's form (saveKey), as addKey's keyData and updateKey's updates.
FormData(serviceName, keyValue, domains) ==
  [serviceName |-> serviceName, keyValue |-> keyValue,
   environment |-> "production", tags |-> <<>>, domains |-> domains,
   rateLimit |-> "", notes |-> "", favorite |-> FALSE, expiresAt |-> NoTime]

\* What the user types into the form: new entries, and edits of an entry.
KeyInputs == {FormData("OpenAI", "sk-AAA", <<>>), FormData("Stripe", "sk-BBB", <<>>)}
UpdateInputs == {FormData("Stripe", "sk-NEW", <<>>)}

\* saveKey's `updates` for an edit: the form's fields, expiresAt among them
\* only when a date was entered.
FormUpdates(form) ==
  [f \in DOMAIN form \ (IF form.expiresAt = NoTime THEN {"expiresAt"} ELSE {})
     |-> form[f]]

\* 'updateKey' messages as handleMessage takes them: data.updates is passed
\* on as it comes, whatever fields it names.
MessageUpdates ==
  {[notes |-> "rotated"], [usageCount |-> 0], [favorite |-> TRUE]}

\* The room the model leaves in the audit log for one more audited request.
AuditRoom ==
  ~AuditEnabled(getSettings(vaultData)) \/ Len(vaultData.auditLog) < MaxAudit

(***************************************************************************)
(* A second vault V1, built by the same methods under its own master       *)
(* password, and the backup exportVault makes of it.                       *)
(***************************************************************************)
BackupPasswords == {"backup-pw"}

ForeignData(master) ==
  LET a == SM_addKey(EmptyData, TRUE, master,
                     FormData("OpenAI", "sk-AAA", <<>>), "A", "#00A67E", "salt", 1)
      b == SM_addKey(a.data, TRUE, master,
                     FormData("Stripe", "sk-BBB", <<>>), "B", "#00A67E", "salt", 1)
  IN b.data

\* exportVault's encrypted blob: encryptData(JSON.stringify(data), password).
BackupBlob(data, password, salt, t) ==
  encryptData(SM_exportData(data, TRUE, t).val, password, salt)

ForeignBlobs ==
  {BackupBlob(ForeignData(m), b, "salt", 1) : m \in {"pw2"}, b \in BackupPasswords}

(***************************************************************************)
(* The background script's handlers, one request handled at a time.        *)
(***************************************************************************)
\* chrome.alarms.create('auto-lock', {delayInMinutes}) at the end of unlockVault.
AlarmAfterUnlock(settings, t, old) ==
  IF AutoLockPositive(settings) THEN t + settings["autoLockMinutes"] * MinuteTicks
  ELSE old

unlockVault(masterPassword) ==
  /\ AuditRoom
  /\ \E salt \in Salts :
       LET v == verifyMasterPassword(passwordHash, masterPassword, salt) IN
       IF ~v.valid
       THEN /\ resp' = Response("unlockVault", masterPassword, FALSE,
                                InvalidPasswordError, 0)
            /\ UNCHANGED <<passwordHash, vaultData, isUnlocked, sessionKey,
                           autoLockAlarm, lastAuth>>
       ELSE LET touched == updateLastActivity(vaultData, now)
                logged == SM_addAuditLog(touched, <<"Vault unlocked">>, now)
            IN /\ passwordHash' = v.hash
               /\ sessionKey' = masterPassword
               /\ isUnlocked' = TRUE
               /\ vaultData' = logged
               /\ autoLockAlarm' =
                    AlarmAfterUnlock(getSettings(logged), now, autoLockAlarm)
               /\ lastAuth' = now
               /\ resp' = Response("unlockVault", masterPassword, FALSE, "", 0)
  /\ UNCHANGED <<now, checkAlarm, nextId, settingsAt, procs, base, fileVars, knownBreachedPrefixes>>

\* lockVault(): StorageManager.lockVault, the audit record, alarms.clear.
\* A lock that leaves the session key in place.
LockEffect_KeepKey ==
  /\ sessionKey' = sessionKey
  /\ isUnlocked' = FALSE
  /\ vaultData' = SM_addAuditLog(vaultData, <<"Vault locked">>, now)
  /\ autoLockAlarm' = NoTime

LockEffect ==
  /\ sessionKey' = Null
  /\ isUnlocked' = FALSE
  /\ vaultData' = SM_addAuditLog(vaultData, <<"Vault locked">>, now)
  /\ autoLockAlarm' = NoTime

lockVault ==
  /\ AuditRoom
  /\ LockEffect
  /\ resp' = Response("lockVault", "", FALSE, "", 0)
  /\ UNCHANGED <<passwordHash, now, checkAlarm, nextId, lastAuth, settingsAt,
                 procs, base, fileVars, knownBreachedPrefixes>>

\* A handler that calls StorageManager methods (result r) and, when none
\* threw, adds the audit record `action` (<<>> for none).
Finish(op, arg, r, action) ==
  /\ vaultData' = IF r.err = "" /\ action # <<>>
                  THEN SM_addAuditLog(r.data, action, now) ELSE r.data
  /\ resp' = Response(op, arg, TRUE, r.err, r.val)
  /\ lastAuth' = IF r.err = "" THEN now ELSE lastAuth
  /\ UNCHANGED <<passwordHash, isUnlocked, sessionKey, now, autoLockAlarm,
                 checkAlarm, settingsAt, procs, base, fileVars, knownBreachedPrefixes>>

\* getKeys' filter: "" and FALSE stand for a key the filter does not carry.
NoFilter == [domain |-> "", favorite |-> FALSE, environment |-> ""]

ApplyFilter(keys, filter) ==
  LET byDomain(k) == SeqContains(k.domains, filter.domain)
      byFavorite(k) == k.favorite
      byEnvironment(k) == k.environment = filter.environment
      f1 == IF filter.domain # "" THEN SelectSeq(keys, byDomain) ELSE keys
      f2 == IF filter.favorite THEN SelectSeq(f1, byFavorite) ELSE f1
  IN IF filter.environment # "" THEN SelectSeq(f2, byEnvironment) ELSE f2

getKeys(filter) ==
  /\ LET r == SM_getAllKeys(vaultData, isUnlocked, sessionKey, now)
     IN Finish("getKeys", filter.domain,
               [r EXCEPT !.val = ApplyFilter(r.val, filter)], <<>>)
  /\ UNCHANGED nextId

getKeyById(id) ==
  /\ Finish("getKeyById", id,
            SM_getKey(vaultData, isUnlocked, sessionKey, id, now), <<>>)
  /\ UNCHANGED nextId

addKey(keyData) ==
  /\ isUnlocked =>
       /\ Len(vaultData.keys) < MaxKeys
       /\ nextId < Len(IdNames)
       /\ AuditRoom
  /\ \E color \in Colors, salt \in Salts :
       LET r == SM_addKey(vaultData, isUnlocked, sessionKey, keyData,
                          generateId(nextId), color, salt, now)
       IN /\ Finish("addKey", keyData.serviceName, r,
                    <<"Key added: ", keyData.serviceName>>)
          /\ nextId' = IF isUnlocked THEN nextId + 1 ELSE nextId

updateKey(id, updates) ==
  /\ isUnlocked => AuditRoom
  /\ \E salt \in Salts :
       Finish("updateKey", id,
              SM_updateKey(vaultData, isUnlocked, sessionKey, id, updates, salt, now),
              <<"Key updated: ", id>>)
  /\ UNCHANGED nextId

\* deleteKey reads the entry with getKey (for the audit text) before it
\* deletes; whatever getKey throws ends the request.
deleteKey(id) ==
  /\ isUnlocked => AuditRoom
  /\ LET g == SM_getKey(vaultData, isUnlocked, sessionKey, id, now) IN
     IF g.err # "" THEN Finish("deleteKey", id, g, <<>>)
     ELSE Finish("deleteKey", id,
                 [SM_deleteKey(g.data, isUnlocked, id, now) EXCEPT !.val = 0],
                 <<"Key deleted: ", g.val.serviceName>>)
  /\ UNCHANGED nextId

UsageRoom(id) ==
  LET i == IndexOfId(vaultData.keys, id)
  IN i # 0 => vaultData.keys[i].usageCount < MaxUsage

recordKeyUsage(id, domain) ==
  /\ isUnlocked => UsageRoom(id)
  /\ Finish("recordKeyUsage", id,
            SM_recordKeyUsage(vaultData, isUnlocked, id, domain, now), <<>>)
  /\ UNCHANGED nextId

\* 'updateSettings' goes straight to StorageManager.updateSettings.
updateSettings(newSettings) ==
  /\ vaultData' = SM_updateSettings(vaultData, newSettings)
  /\ resp' = Response("updateSettings", "", FALSE, "", 0)
  /\ settingsAt' = now
  /\ UNCHANGED <<passwordHash, isUnlocked, sessionKey, now, autoLockAlarm,
                 checkAlarm, nextId, lastAuth, procs, base, fileVars, knownBreachedPrefixes>>

exportVault(masterPassword) ==
  /\ isUnlocked => AuditRoom
  /\ \E salt \in Salts :
       LET r == SM_exportData(vaultData, isUnlocked, now)
           blob == IF r.err = "" THEN encryptData(r.val, masterPassword, salt)
                   ELSE 0
       IN Finish("exportVault", masterPassword, [r EXCEPT !.val = blob],
                 <<"Vault exported">>)
  /\ UNCHANGED nextId

\* How many entries importData would append.
ImportGrowth(importedData) ==
  Len(ImportMerge(vaultData, importedData).keys) - Len(vaultData.keys)

importVault(encryptedData, masterPassword) ==
  /\ LET d == decryptData(encryptedData, masterPassword) IN
     IF ~d.ok
     THEN /\ resp' = Response("importVault", masterPassword, FALSE, d.value, 0)
          /\ UNCHANGED <<passwordHash, vaultData, isUnlocked, sessionKey, now,
                         autoLockAlarm, checkAlarm, lastAuth, settingsAt,
                         procs, base, fileVars, knownBreachedPrefixes>>
     ELSE /\ isUnlocked =>
               (AuditRoom /\ Len(vaultData.keys) + ImportGrowth(d.value) <= MaxKeys)
          /\ Finish("importVault", masterPassword,
                    SM_importData(vaultData, isUnlocked, d.value),
                    <<"Vault imported">>)
  /\ UNCHANGED nextId

IdInputs == {"k1", "A"}

\* One slot per request handleMessage has taken: op is the request, pc the
\* await it is suspended at, enc/key/data/sdata/password/stored the
\* handler's locals, err the error it reported once it is done.
ProcIds == 1..MaxProcs

IdleProc ==
  [op |-> "", pc |-> "idle", keyData |-> FormData("", "", <<>>), id |-> "",
   domain |-> "", enc |-> <<>>, key |-> <<>>, data |-> EmptyData,
   sdata |-> EmptyData, err |-> "", password |-> "", stored |-> NoHash]

\* Date.now() is never 0: the clock starts at 1.  The periodic alarm was
\* created when the extension started, one minute before it first fires.
Init ==
  /\ passwordHash = NoHash
  /\ vaultData = EmptyData
  /\ isUnlocked = FALSE
  /\ sessionKey = Null
  /\ now = 1
  /\ autoLockAlarm = NoTime
  /\ checkAlarm = 1 + MinuteTicks
  /\ nextId = 0
  /\ resp = Response("init", "", FALSE, "", 0)
  /\ lastAuth = NoTime
  /\ settingsAt = NoTime
  /\ procs = [p \in ProcIds |-> IdleProc]
  /\ base = EmptyData
  /\ disk = NoFiles
  /\ cli = IdleCli
  /\ mcp = NewMcp
  /\ knownBreachedPrefixes = {}

\* One request at a time, the clock standing still.
Next ==
  \/ \E p \in Passwords : unlockVault(p)
  \/ lockVault
  \/ getKeys(NoFilter)
  \/ \E id \in IdInputs : getKeyById(id)
  \/ \E k \in KeyInputs : addKey(k)
  \/ \E id \in IdInputs, u \in UpdateInputs : updateKey(id, FormUpdates(u))
  \/ \E id \in IdInputs : deleteKey(id)
  \/ \E id \in IdInputs : recordKeyUsage(id, "")
  \/ \E p \in BackupPasswords : exportVault(p)
  \/ \E b \in ForeignBlobs, p \in BackupPasswords \cup {"pw1"} : importVault(b, p)

Spec == Init /\ [][Next]_vars

\* The key requests with 'updateKey' messages of any shape.
NextApi ==
  \/ \E p \in {"pw1"} : unlockVault(p)
  \/ lockVault
  \/ \E k \in KeyInputs : addKey(k)
  \/ \E id \in {"k1", "k2"}, u \in MessageUpdates : updateKey(id, u)
  \/ \E id \in {"k1", "k2"} : recordKeyUsage(id, "")
  \/ \E id \in {"k1", "k2"} : getKeyById(id)

SpecApi == Init /\ [][NextApi]_vars

(***************************************************************************)
(* The clock and chrome.alarms: the session's requests, the settings and   *)
(* the alarm listener.  An alarm that is due fires before the clock moves  *)
(* on.                                                                     *)
(***************************************************************************)
SettingsInputs == {SettingsObj(a, TRUE) : a \in AutoLockChoices}

AlarmDue ==
  \/ autoLockAlarm # NoTime /\ now >= autoLockAlarm
  \/ now >= checkAlarm

Tick ==
  /\ now < MaxTime
  /\ ~AlarmDue
  /\ now' = now + 1
  /\ resp' = Response("tick", "", FALSE, "", 0)
  /\ UNCHANGED <<passwordHash, vaultData, isUnlocked, sessionKey, autoLockAlarm,
                 checkAlarm, nextId, lastAuth, settingsAt, procs, base, fileVars, knownBreachedPrefixes>>

\* alarm.name === 'auto-lock'
onAlarmAutoLock ==
  /\ autoLockAlarm # NoTime /\ now >= autoLockAlarm
  /\ AuditRoom
  /\ LockEffect
  /\ resp' = Response("onAlarm", "auto-lock", FALSE, "", 0)
  /\ UNCHANGED <<passwordHash, now, checkAlarm, nextId, lastAuth, settingsAt,
                 procs, base, fileVars, knownBreachedPrefixes>>

\* now - lastActivity > settings.autoLockMinutes * 60 * 1000, in ticks; a
\* comparison with undefined * 60000 (NaN) is false.
IdleExceeded(data, t) ==
  LET settings == getSettings(data)
  IN /\ "autoLockMinutes" \in DOMAIN settings
     /\ t - SM_getLastActivity(data, t) > settings["autoLockMinutes"] * MinuteTicks

\* alarm.name === 'check-auto-lock', every minute
onAlarmCheck ==
  /\ now >= checkAlarm
  /\ checkAlarm' = checkAlarm + MinuteTicks
  /\ IF isUnlocked /\ IdleExceeded(vaultData, now)
     THEN AuditRoom /\ LockEffect
     ELSE UNCHANGED <<vaultData, isUnlocked, sessionKey, autoLockAlarm>>
  /\ resp' = Response("onAlarm", "check-auto-lock", FALSE, "", 0)
  /\ UNCHANGED <<passwordHash, now, nextId, lastAuth, settingsAt, procs, base, fileVars, knownBreachedPrefixes>>

\* The periodic alarm may first fire at any point of the first minute.
InitTime ==
  /\ passwordHash = NoHash
  /\ vaultData = EmptyData
  /\ isUnlocked = FALSE
  /\ sessionKey = Null
  /\ now = 1
  /\ autoLockAlarm = NoTime
  /\ checkAlarm \in 2..(1 + MinuteTicks)
  /\ nextId = 0
  /\ resp = Response("init", "", FALSE, "", 0)
  /\ lastAuth = NoTime
  /\ settingsAt = NoTime
  /\ procs = [p \in ProcIds |-> IdleProc]
  /\ base = EmptyData
  /\ disk = NoFiles
  /\ cli = IdleCli
  /\ mcp = NewMcp
  /\ knownBreachedPrefixes = {}

NextTime ==
  \/ \E p \in {"pw1"} : unlockVault(p)
  \/ lockVault
  \/ getKeys(NoFilter)
  \/ \E p \in BackupPasswords : exportVault(p)
  \/ \E n \in SettingsInputs : updateSettings(n)
  \/ Tick
  \/ onAlarmAutoLock
  \/ onAlarmCheck

SpecTime == InitTime /\ [][NextTime]_vars

(***************************************************************************)
(* handleMessage with several requests in flight.  The listener starts a  *)
(* handler for every message and does not wait for the one before; a      *)
(* handler runs until its next await and another may run in between.      *)
(* chrome.storage.local serves get and set in the order they are issued:  *)
(* a get resolves to the value stored when it was issued, a set stores    *)
(* when it is issued; the callback is the handler's next step.            *)
(***************************************************************************)
NoneInFlight == \A p \in ProcIds : procs[p].pc = "idle"

AllOthersIdle(p) == \A q \in ProcIds \ {p} : procs[q].pc = "idle"

\* The stored data a batch of requests starts from.
BaseAfterStart(p) == IF AllOthersIdle(p) THEN vaultData ELSE base

Pending == "pending"

Await(p, pc, err) ==
  resp' = Response(procs[p].op, p, procs[p].op # "lockVault",
                   IF pc = "done" THEN err ELSE Pending, 0)

Goto(p, pc, err) == [procs[p] EXCEPT !.pc = pc, !.err = err]

Session == <<passwordHash, isUnlocked, sessionKey, now, autoLockAlarm,
             checkAlarm, lastAuth, settingsAt>>

\* unlockVault, handled alone before the requests arrive.
unlockAlone(masterPassword) ==
  /\ NoneInFlight
  /\ unlockVault(masterPassword)

\* addKey of a first entry, handled alone as well.
addKeyAlone(keyData) ==
  /\ NoneInFlight
  /\ isUnlocked /\ vaultData.keys = <<>>
  /\ addKey(keyData)

\* addKey, to its first await: the isUnlocked check, then encryptData is
\* called with the sessionKey of this moment.
StartAddKey(p, keyData) ==
  /\ procs[p].pc = "idle"
  /\ \E salt \in Salts :
       LET started == [procs[p] EXCEPT
                         !.op = "addKey", !.keyData = keyData,
                         !.enc = IF isUnlocked
                                 THEN encryptData(keyData.keyValue, sessionKey, salt)
                                 ELSE <<>>]
           pc == IF isUnlocked THEN "encrypt" ELSE "done"
           err == IF isUnlocked THEN "" ELSE LockedError
       IN /\ procs' = [procs EXCEPT ![p] = [started EXCEPT !.pc = pc, !.err = err]]
          /\ resp' = Response("addKey", p, TRUE,
                              IF isUnlocked THEN Pending ELSE LockedError, 0)
  /\ base' = BaseAfterStart(p)
  /\ UNCHANGED <<fileVars, knownBreachedPrefixes>>
  /\ UNCHANGED <<Session, vaultData, nextId>>

\* encryptData resolved: newKey is built and getStorageData issued.
AddKeyEncrypted(p) ==
  /\ procs[p].op = "addKey" /\ procs[p].pc = "encrypt"
  /\ nextId < Len(IdNames)
  /\ \E color \in Colors :
       procs' = [procs EXCEPT ![p] =
                   [procs[p] EXCEPT
                      !.pc = "get",
                      !.id = generateId(nextId),
                      !.key = NewKey(procs[p].keyData, procs[p].enc,
                                     generateId(nextId), color, now),
                      !.data = vaultData]]
  /\ nextId' = nextId + 1
  /\ Await(p, "get", "")
  /\ UNCHANGED <<Session, vaultData, base, fileVars, knownBreachedPrefixes>>

\* getStorageData resolved: data.keys.push(newKey), setStorageData(data).
AddKeyGot(p) ==
  /\ procs[p].op = "addKey" /\ procs[p].pc = "get"
  /\ vaultData' = PushKey(procs[p].data, procs[p].key)
  /\ procs' = [procs EXCEPT ![p] = Goto(p, "set", "")]
  /\ Await(p, "set", "")
  /\ UNCHANGED <<Session, nextId, base, fileVars, knownBreachedPrefixes>>

\* recordKeyUsage, to its first await: the isUnlocked check, getStorageData.
\* The sender names an entry it was shown: one stored, whose addKey answered.
StartRecordKeyUsage(p, id, domain) ==
  /\ procs[p].pc = "idle"
  /\ IndexOfId(vaultData.keys, id) # 0
  /\ \A q \in ProcIds : procs[q].id = id => procs[q].pc = "done"
  /\ LET started == [procs[p] EXCEPT !.op = "recordKeyUsage", !.id = id,
                                     !.domain = domain, !.data = vaultData]
         pc == IF isUnlocked THEN "get" ELSE "done"
         err == IF isUnlocked THEN "" ELSE LockedError
     IN /\ procs' = [procs EXCEPT ![p] = [started EXCEPT !.pc = pc, !.err = err]]
        /\ resp' = Response("recordKeyUsage", p, TRUE,
                            IF isUnlocked THEN Pending ELSE LockedError, 0)
  /\ base' = BaseAfterStart(p)
  /\ UNCHANGED <<fileVars, knownBreachedPrefixes>>
  /\ UNCHANGED <<Session, vaultData, nextId>>

\* getStorageData resolved: data.keys.find, the entry's counters,
\* setStorageData(data); nothing is written when no entry has the id.
RecordGot(p) ==
  /\ procs[p].op = "recordKeyUsage" /\ procs[p].pc = "get"
  /\ LET data == procs[p].data
         i == IndexOfId(data.keys, procs[p].id)
     IN IF ~data.keysDefined
        THEN /\ procs' = [procs EXCEPT ![p] = Goto(p, "done", TypeErrorMsg)]
             /\ Await(p, "done", TypeErrorMsg)
             /\ UNCHANGED vaultData
        ELSE IF i = 0
        THEN /\ procs' = [procs EXCEPT ![p] = Goto(p, "done", "")]
             /\ Await(p, "done", "")
             /\ UNCHANGED vaultData
        ELSE /\ vaultData' =
                  [data EXCEPT !.keys[i] = UsedKey(data.keys[i], procs[p].domain, now)]
             /\ procs' = [procs EXCEPT ![p] = Goto(p, "set", "")]
             /\ Await(p, "set", "")
  /\ UNCHANGED <<Session, nextId, base, fileVars, knownBreachedPrefixes>>

\* setStorageData resolved: updateLastActivity issues its getStorageData.
Written(p) ==
  /\ procs[p].pc = "set"
  /\ procs' = [procs EXCEPT ![p] = [procs[p] EXCEPT !.pc = "touchGet",
                                                    !.data = vaultData]]
  /\ Await(p, "touchGet", "")
  /\ UNCHANGED <<Session, vaultData, nextId, base, fileVars, knownBreachedPrefixes>>

\* data.lastActivity = Date.now(); setStorageData(data).
TouchGot(p) ==
  /\ procs[p].pc = "touchGet"
  /\ vaultData' = updateLastActivity(procs[p].data, now)
  /\ procs' = [procs EXCEPT ![p] = Goto(p, "touchSet", "")]
  /\ Await(p, "touchSet", "")
  /\ UNCHANGED <<Session, nextId, base, fileVars, knownBreachedPrefixes>>

\* The StorageManager method returned: recordKeyUsage answers, addKey and
\* unlockVault go on to addAuditLog, which issues its getStorageData.
Touched(p) ==
  /\ procs[p].pc = "touchSet"
  /\ IF procs[p].op \in {"addKey", "unlockVault"}
     THEN /\ procs' = [procs EXCEPT ![p] = [procs[p] EXCEPT !.pc = "auditGet",
                                                           !.data = vaultData]]
          /\ Await(p, "auditGet", "")
     ELSE /\ procs' = [procs EXCEPT ![p] = Goto(p, "done", "")]
          /\ Await(p, "done", "")
  /\ UNCHANGED <<Session, vaultData, nextId, base, fileVars, knownBreachedPrefixes>>

\* lockVault, to its first await: StorageManager.lockVault has no await of
\* its own, so the session ends at once and addAuditLog issues its
\* getStorageData.
StartLockVault(p) ==
  /\ procs[p].pc = "idle"
  /\ sessionKey' = Null
  /\ isUnlocked' = FALSE
  /\ procs' = [procs EXCEPT ![p] = [procs[p] EXCEPT !.op = "lockVault",
                                                    !.pc = "auditGet",
                                                    !.data = vaultData]]
  /\ resp' = Response("lockVault", p, FALSE, Pending, 0)
  /\ base' = BaseAfterStart(p)
  /\ UNCHANGED <<fileVars, knownBreachedPrefixes>>
  /\ UNCHANGED <<passwordHash, vaultData, now, autoLockAlarm, checkAlarm,
                 nextId, lastAuth, settingsAt>>

AuditAction(proc) ==
  IF proc.op = "addKey" THEN <<"Key added: ", proc.keyData.serviceName>>
  ELSE IF proc.op = "unlockVault" THEN <<"Vault unlocked">>
  ELSE <<"Vault locked">>

\* addAuditLog's `data` resolved: getSettings issues its getStorageData.
AuditGot(p) ==
  /\ procs[p].pc = "auditGet"
  /\ procs' = [procs EXCEPT ![p] = [procs[p] EXCEPT !.pc = "auditSettings",
                                                    !.sdata = vaultData]]
  /\ Await(p, "auditSettings", "")
  /\ UNCHANGED <<Session, vaultData, nextId, base, fileVars, knownBreachedPrefixes>>

\* What the handler does once addAuditLog returned: lockVault clears the
\* 'auto-lock' alarm, unlockVault creates it from the settings; all answer
\* success.
Answered(p) ==
  /\ autoLockAlarm' =
       IF procs[p].op = "lockVault" THEN NoTime
       ELSE IF procs[p].op = "unlockVault"
            THEN AlarmAfterUnlock(getSettings(vaultData), now, autoLockAlarm)
       ELSE autoLockAlarm
  /\ procs' = [procs EXCEPT ![p] = Goto(p, "done", "")]
  /\ Await(p, "done", "")

\* `settings` resolved: the entry is put in front of `data`'s log and
\* setStorageData(data) issued; with the audit log off addAuditLog returns.
AuditSettingsGot(p) ==
  /\ procs[p].pc = "auditSettings"
  /\ IF AuditEnabled(getSettings(procs[p].sdata))
     THEN /\ vaultData' = AuditWrite(procs[p].data, procs[p].sdata,
                                     AuditAction(procs[p]), now)
          /\ procs' = [procs EXCEPT ![p] = Goto(p, "auditSet", "")]
          /\ Await(p, "auditSet", "")
          /\ UNCHANGED autoLockAlarm
     ELSE Answered(p) /\ UNCHANGED vaultData
  /\ UNCHANGED <<passwordHash, isUnlocked, sessionKey, now, checkAlarm,
                 lastAuth, settingsAt, nextId, base, fileVars, knownBreachedPrefixes>>

AuditWritten(p) ==
  /\ procs[p].pc = "auditSet"
  /\ Answered(p)
  /\ UNCHANGED <<passwordHash, vaultData, isUnlocked, sessionKey, now,
                 checkAlarm, lastAuth, settingsAt, nextId, base, fileVars, knownBreachedPrefixes>>

\* unlockVault, to its first await: verifyMasterPassword issues
\* getStoredPasswordHash.
StartUnlock(p, masterPassword) ==
  /\ procs[p].pc = "idle"
  /\ procs' = [procs EXCEPT ![p] = [procs[p] EXCEPT
                  !.op = "unlockVault", !.pc = "verifyGet",
                  !.password = masterPassword, !.stored = passwordHash]]
  /\ resp' = Response("unlockVault", p, FALSE, Pending, 0)
  /\ base' = BaseAfterStart(p)
  /\ UNCHANGED <<Session, vaultData, nextId, fileVars, knownBreachedPrefixes>>

\* The stored hash resolved.  With none, hashPassword is awaited; with one,
\* the password is compared, and on a match StorageManager.unlockVault
\* verifies again, which issues getStoredPasswordHash anew.
VerifyGot(p) ==
  /\ procs[p].pc = "verifyGet"
  /\ LET pc == IF procs[p].stored = NoHash THEN "hash"
               ELSE IF HashMatches(procs[p].stored, procs[p].password)
                    THEN "verifyAgain" ELSE "done"
         err == IF pc = "done" THEN InvalidPasswordError ELSE ""
     IN /\ procs' = [procs EXCEPT ![p] = [procs[p] EXCEPT
                        !.pc = pc, !.err = err, !.stored = passwordHash]]
        /\ Await(p, pc, err)
  /\ UNCHANGED <<Session, vaultData, nextId, base, fileVars, knownBreachedPrefixes>>

\* hashPassword resolved: storePasswordHash(hash).
Hashed(p) ==
  /\ procs[p].pc = "hash"
  /\ \E salt \in Salts : passwordHash' = hashPassword(procs[p].password, salt)
  /\ procs' = [procs EXCEPT ![p] = Goto(p, "hashSet", "")]
  /\ Await(p, "hashSet", "")
  /\ UNCHANGED <<isUnlocked, sessionKey, now, autoLockAlarm, checkAlarm,
                 lastAuth, settingsAt, vaultData, nextId, base, fileVars, knownBreachedPrefixes>>

\* The hash is stored: the first verifyMasterPassword returns true and
\* StorageManager.unlockVault verifies again.
HashStored(p) ==
  /\ procs[p].pc = "hashSet"
  /\ procs' = [procs EXCEPT ![p] = [procs[p] EXCEPT
                  !.pc = "verifyAgain", !.stored = passwordHash]]
  /\ Await(p, "verifyAgain", "")
  /\ UNCHANGED <<Session, vaultData, nextId, base, fileVars, knownBreachedPrefixes>>

\* StorageManager.unlockVault after its verifyMasterPassword: the session
\* starts and updateLastActivity issues its getStorageData.
VerifiedAgain(p) ==
  /\ procs[p].pc = "verifyAgain"
  /\ IF HashMatches(procs[p].stored, procs[p].password)
     THEN /\ sessionKey' = procs[p].password
          /\ isUnlocked' = TRUE
          /\ lastAuth' = now
          /\ procs' = [procs EXCEPT ![p] = [procs[p] EXCEPT
                          !.pc = "touchGet", !.data = vaultData]]
          /\ Await(p, "touchGet", "")
     ELSE /\ procs' = [procs EXCEPT ![p] = Goto(p, "done", InvalidPasswordError)]
          /\ Await(p, "done", InvalidPasswordError)
          /\ UNCHANGED <<sessionKey, isUnlocked, lastAuth>>
  /\ UNCHANGED <<passwordHash, now, autoLockAlarm, checkAlarm, settingsAt,
                 vaultData, nextId, base, fileVars, knownBreachedPrefixes>>

\* Unlock requests in flight together.
NextRace ==
  \/ \E p \in ProcIds, m \in Passwords : StartUnlock(p, m)
  \/ \E p \in ProcIds : VerifyGot(p)
  \/ \E p \in ProcIds : Hashed(p)
  \/ \E p \in ProcIds : HashStored(p)
  \/ \E p \in ProcIds : VerifiedAgain(p)
  \/ \E p \in ProcIds : TouchGot(p)
  \/ \E p \in ProcIds : Touched(p)
  \/ \E p \in ProcIds : AuditGot(p)
  \/ \E p \in ProcIds : AuditSettingsGot(p)
  \/ \E p \in ProcIds : AuditWritten(p)

SpecRace == Init /\ [][NextRace]_vars

ConcKeyInputs ==
  {FormData("Stripe", "sk-BBB", <<>>), FormData("GitHub", "ghp-CCC", <<>>)}
ConcIdInputs == {"k1"}

NextConc ==
  \/ \E m \in {"pw1"} : unlockAlone(m)
  \/ \E k \in {FormData("OpenAI", "sk-AAA", <<>>)} : addKeyAlone(k)
  \/ \E p \in ProcIds, k \in ConcKeyInputs : StartAddKey(p, k)
  \/ \E p \in ProcIds, id \in ConcIdInputs, d \in {""} : StartRecordKeyUsage(p, id, d)
  \/ \E p \in ProcIds : StartLockVault(p)
  \/ \E p \in ProcIds : AddKeyEncrypted(p)
  \/ \E p \in ProcIds : AddKeyGot(p)
  \/ \E p \in ProcIds : RecordGot(p)
  \/ \E p \in ProcIds : Written(p)
  \/ \E p \in ProcIds : TouchGot(p)
  \/ \E p \in ProcIds : Touched(p)
  \/ \E p \in ProcIds : AuditGot(p)
  \/ \E p \in ProcIds : AuditSettingsGot(p)
  \/ \E p \in ProcIds : AuditWritten(p)

SpecConc == Init /\ [][NextConc]_vars

(***************************************************************************)
(* Properties.                                                             *)
(***************************************************************************)
AllIds == {"k1", "k2", "k3", "A", "B"}

Stored(keys, id) == IndexOfId(keys, id) # 0
UsageOf(keys, id) == keys[IndexOfId(keys, id)].usageCount

\* C1 (lock boundary): a request that invokes an authenticated
\* StorageManager method while the vault is locked is answered
\* 'Vault is locked' and leaves the stored vault data as it was.
C1_LockBoundary ==
  [][(~isUnlocked /\ resp'.called) =>
       (resp'.err = LockedError /\ vaultData' = vaultData)]_vars

\* Reached: a vault that was unlocked, filled and locked again, on which
\* addKey has just been refused.
C1_Witness ==
  /\ ~isUnlocked
  /\ resp.called /\ resp.op = "addKey" /\ resp.err = LockedError
  /\ Len(vaultData.keys) > 0
  /\ vaultData.auditLog # <<>>
  /\ vaultData.auditLog[1].action = <<"Vault locked">>

\* C5 (usage monotonicity): no request (addKey, updateKey, recordKeyUsage,
\* importVault, deleteKey of another id) lowers the usageCount of an entry
\* that stays stored, and a recordKeyUsage that succeeds for a stored id
\* raises that entry's usageCount by one.
C5_UsageMonotone ==
  [][/\ \A id \in AllIds :
          (Stored(vaultData.keys, id) /\ Stored(vaultData'.keys, id))
            => UsageOf(vaultData'.keys, id) >= UsageOf(vaultData.keys, id)
     /\ (resp'.op = "recordKeyUsage" /\ resp'.err = ""
           /\ Stored(vaultData.keys, resp'.arg))
          => UsageOf(vaultData'.keys, resp'.arg)
               = UsageOf(vaultData.keys, resp'.arg) + 1]_vars

\* C6 (every ciphertext belongs to the master password): each stored
\* entry's keyValue decrypts under the password the stored verifier accepts.
C6_CiphertextUnderMaster ==
  \A i \in 1..Len(vaultData.keys) : \A p \in Passwords :
     (passwordHash # NoHash /\ HashMatches(passwordHash, p))
       => CanDecrypt(vaultData.keys[i].keyValue, p)

\* C7 (export/import round trip): importing V1's backup with the backup
\* password into a fresh unlocked vault inserts A and B, and getKey(A) on
\* an unlocked vault that stores the imported A returns A's plaintext.
C7_RoundTrip ==
  [][/\ (resp'.op = "importVault" /\ resp'.called /\ isUnlocked
           /\ vaultData.keys = <<>>)
          => /\ resp'.err = ""
             /\ Stored(vaultData'.keys, "A") /\ Stored(vaultData'.keys, "B")
     /\ (resp'.op = "getKeyById" /\ resp'.arg = "A" /\ isUnlocked
           /\ Stored(vaultData.keys, "A"))
          => (resp'.err = "" /\ resp'.val.keyValue = "sk-AAA")]_vars

\* C10 (wrong password): unlockVault with a password the stored verifier
\* rejects answers 'Invalid master password' and leaves isUnlocked and
\* sessionKey alone; a getKey that follows it on a locked vault answers
\* 'Vault is locked'.
C10_WrongPassword ==
  [][/\ (resp'.op = "unlockVault" /\ passwordHash # NoHash
           /\ ~constantTimeEqual(passwordHash[2],
                                 deriveKey(resp'.arg, passwordHash[1])))
          => /\ resp'.err = InvalidPasswordError
             /\ isUnlocked' = isUnlocked
             /\ sessionKey' = sessionKey
     /\ (resp.op = "unlockVault" /\ resp.err = InvalidPasswordError
           /\ ~isUnlocked /\ resp'.op = "getKeyById")
          => resp'.err = LockedError]_vars

\* Reached: a locked vault holding entries, on which a wrong password has
\* just been refused.
C10_Witness ==
  /\ resp.op = "unlockVault" /\ resp.err = InvalidPasswordError
  /\ ~isUnlocked /\ sessionKey = Null
  /\ Len(vaultData.keys) > 0

AutoLockSetting == getSettings(vaultData)["autoLockMinutes"]
AutoLockDefined == "autoLockMinutes" \in DOMAIN getSettings(vaultData)

\* C2 (auto-lock): with autoLockMinutes = 1 in force for more than a minute,
\* no authenticated call for more than a minute and no alarm waiting to be
\* served, the next authenticated call answers 'Vault is locked'.
C2_AutoLock ==
  [][(/\ AutoLockDefined /\ AutoLockSetting = 1
      /\ lastAuth # NoTime /\ now - lastAuth > MinuteTicks
      /\ (settingsAt = NoTime \/ now - settingsAt > MinuteTicks)
      /\ ~AlarmDue
      /\ resp'.called)
       => resp'.err = LockedError]_vars

\* C3 (idle timeout): a successful authenticated call leaves lastActivity at
\* the current time, and an alarm locks an unlocked vault only when
\* now - lastActivity exceeds the configured timeout.
C3_IdleTimeout ==
  [][/\ (resp'.called /\ resp'.err = "") => vaultData'.lastActivity = now
     /\ (isUnlocked /\ ~isUnlocked' /\ resp'.op = "onAlarm")
          => /\ AutoLockDefined
             /\ now - vaultData.lastActivity > AutoLockSetting * MinuteTicks]_vars

\* C4 (auto-lock disabled): while autoLockMinutes is 0 only an explicit
\* lockVault request locks an unlocked vault.
C4_AutoLockDisabled ==
  [][(isUnlocked /\ ~isUnlocked' /\ AutoLockDefined /\ AutoLockSetting = 0)
       => resp'.op = "lockVault"]_vars

\* What a request stores when it is handled alone, from start to answer.
SerialEffect(data, proc) ==
  IF proc.op = "addKey"
  THEN SM_addAuditLog(updateLastActivity(PushKey(data, proc.key), now),
                      AuditAction(proc), now)
  ELSE IF proc.op = "recordKeyUsage"
  THEN SM_recordKeyUsage(data, TRUE, proc.id, proc.domain, now).data
  ELSE SM_addAuditLog(data, AuditAction(proc), now)

RECURSIVE SerialRun(_, _)
SerialRun(data, order) ==
  IF order = <<>> THEN data
  ELSE SerialRun(SerialEffect(data, procs[Head(order)]), Tail(order))

Orders == {o \in [ProcIds -> ProcIds] : \A p, q \in ProcIds : o[p] = o[q] => p = q}

AllSucceeded ==
  \A p \in ProcIds : /\ procs[p].op \in {"addKey", "recordKeyUsage"}
                     /\ procs[p].pc = "done" /\ procs[p].err = ""

\* C8 (strict serial order): once the addKey and recordKeyUsage requests
\* handled concurrently have all reported success, the stored vault data is
\* what handling them one after the other, in some order, stores.
C8_SerialOrder ==
  AllSucceeded => \E o \in Orders : vaultData = SerialRun(base, o)

\* C9 (in-flight calls and locking): a step of an authenticated request
\* taken while the vault is locked stores nothing, and the request answers
\* nothing but 'Vault is locked'.
C9_InFlightLock ==
  [][(resp'.called /\ ~isUnlocked)
       => (vaultData' = vaultData /\ resp'.err \in {Pending, LockedError})]_vars

\* C11 (the verifier is installed only by initialization): unlockVault on a
\* store that holds no password hash is refused, stores no hash and leaves
\* the vault locked.
C11_NoVerifierNoUnlock ==
  [][(resp'.op = "unlockVault" /\ passwordHash = NoHash)
       => (resp'.err # "" /\ passwordHash' = NoHash /\ ~isUnlocked')]_vars

(***************************************************************************)
(* The audit log at its full size: a run of logged requests, each one      *)
(* clock unit after the one before, and reads of the log.                  *)
(***************************************************************************)
MaxLogged == 1500           \* logged requests in one run
DefaultAuditLimit == 100    \* getAuditLog(limit = 100)

\* The limits a 'getAuditLog' request may carry in its data.
AuditLimits == {2, 2000}

\* case 'getAuditLog': the handler calls getAuditLog() without an argument,
\* whatever the message carries.
getAuditLog(limit) ==
  /\ resp' = Response("getAuditLog", limit, TRUE, "",
                      SM_getAuditLog(vaultData, DefaultAuditLimit))
  /\ UNCHANGED <<passwordHash, vaultData, isUnlocked, sessionKey, now,
                 autoLockAlarm, checkAlarm, nextId, lastAuth, settingsAt,
                 procs, base, fileVars, knownBreachedPrefixes>>

\* A lockVault request one clock unit after the previous request.
laterLockVault ==
  /\ now <= MaxLogged
  /\ now' = now + 1
  /\ LockEffect
  /\ resp' = Response("lockVault", "", FALSE, "", 0)
  /\ UNCHANGED <<passwordHash, checkAlarm, nextId, lastAuth, settingsAt,
                 procs, base, fileVars, knownBreachedPrefixes>>

NextAudit ==
  \/ laterLockVault
  \/ \E limit \in AuditLimits : getAuditLog(limit)

SpecAudit == Init /\ [][NextAudit]_vars

\* C13 (audit log bound): the log never holds more than 1000 records, and a
\* record added to a full log pushes out the oldest one and no other.
C13_AuditBound ==
  /\ [](Len(vaultData.auditLog) <= AuditLimit)
  /\ [][(Len(vaultData.auditLog) = AuditLimit
           /\ vaultData'.auditLog # vaultData.auditLog)
        => LET log == vaultData.auditLog
               oldest == log[Len(log)]
           IN /\ \A i \in 1..Len(log) : log[i].timestamp >= oldest.timestamp
              /\ Len(vaultData'.auditLog) = AuditLimit
              /\ SubSeq(vaultData'.auditLog, 2, AuditLimit)
                   = SubSeq(log, 1, AuditLimit - 1)]_vars

\* A full log that has already lost its first record.
C13_Witness ==
  /\ Len(vaultData.auditLog) = AuditLimit
  /\ vaultData.auditLog[AuditLimit].timestamp > 1

Min(a, b) == IF a < b THEN a ELSE b

\* C14 (audit tail): reading the log with limit n gives the min(n, length)
\* newest records, newest first, from StorageManager.getAuditLog and from a
\* 'getAuditLog' request alike; once 1500 requests were logged, n = 2000
\* gives exactly 1000 records.
C14_AuditTail ==
  LET log == vaultData.auditLog
      tail(n) == SubSeq(log, 1, Min(n, Len(log)))
  IN /\ \A n \in AuditLimits : SM_getAuditLog(vaultData, n) = tail(n)
     /\ resp.op = "getAuditLog" => resp.val = tail(resp.arg)
     /\ (resp.op = "getAuditLog" /\ resp.arg = 2000 /\ now > MaxLogged)
          => Len(resp.val) = AuditLimit

(***************************************************************************)
(* The settings page switching the audit log off and on between requests.  *)
(***************************************************************************)
AuditSwitches == {SettingsObj(1, e) : e \in BOOLEAN}

NextSettings ==
  \/ unlockVault("pw1")
  \/ lockVault
  \/ addKey(FormData("OpenAI", "sk-AAA", <<>>))
  \/ \E u \in UpdateInputs : updateKey("k1", FormUpdates(u))
  \/ deleteKey("k1")
  \/ recordKeyUsage("k1", "")
  \/ \E n \in AuditSwitches : updateSettings(n)

SpecSettings == Init /\ [][NextSettings]_vars

\* C15 (audit gating): a request handled while settings.enableAuditLog is
\* false leaves the audit log as it was, the request that switches the
\* setting back on included.
C15_AuditGating ==
  [][~AuditEnabled(getSettings(vaultData))
       => vaultData'.auditLog = vaultData.auditLog]_vars

\* An entry was added while the log was switched off, and the log does not
\* show it.
C15_Witness ==
  /\ ~AuditEnabled(getSettings(vaultData))
  /\ resp.op = "addKey" /\ resp.err = ""
  /\ \A i \in 1..Len(vaultData.auditLog) :
       vaultData.auditLog[i].action[1] # "Key added: "

MutatingRequests ==
  {"addKey", "updateKey", "deleteKey", "recordKeyUsage", "importVault",
   "updateSettings"}

\* C16 (audited requests): with the audit log switched on, every mutating
\* request that succeeds (add, update, delete, record usage, import,
\* settings update) adds one record to the log.
C16_AuditedMutations ==
  [][(/\ resp'.op \in MutatingRequests
      /\ resp'.err = ""
      /\ AuditEnabled(getSettings(vaultData))
      /\ AuditEnabled(getSettings(vaultData')))
       => Len(vaultData'.auditLog) = Len(vaultData.auditLog) + 1]_vars

(***************************************************************************)
(* StorageManager.initialize, as a caller of the class may invoke it.      *)
(***************************************************************************)
\* An initialize that does not consult the initialized flag.
SM_initialize_Always(data, t) ==
  [initialized |-> TRUE, keysDefined |-> TRUE, keys |-> <<>>,
   settingsDefined |-> TRUE, settings |-> getDefaultSettings,
   auditLog |-> <<>>, lastActivity |-> t]

SM_initialize(data, t) ==
  IF ~data.initialized
  THEN [initialized |-> TRUE, keysDefined |-> TRUE, keys |-> <<>>,
        settingsDefined |-> TRUE, settings |-> getDefaultSettings,
        auditLog |-> <<>>, lastActivity |-> t]
  ELSE data

initialize ==
  /\ vaultData' = SM_initialize(vaultData, now)
  /\ resp' = Response("initialize", "", FALSE, "", 0)
  /\ UNCHANGED <<passwordHash, isUnlocked, sessionKey, now, autoLockAlarm,
                 checkAlarm, nextId, lastAuth, settingsAt, procs, base,
                 fileVars, knownBreachedPrefixes>>

(***************************************************************************)
(* The command line tool (class KeyVaultCLI): every command is a process   *)
(* of its own, working on ~/.keyvault/vault.json.                          *)
(***************************************************************************)
MinPasswordLength == 8

\* What the user types at the prompts.
CliPasswords == {"master-pw1", "hunter2"}
Answers == {"yes", "YES", "no"}

\* String.prototype.toLowerCase and .length on the strings in use.
toLowerCase(s) ==
  CASE s = "OpenAI" -> "openai"
    [] s = "Stripe" -> "stripe"
    [] s = "YES" -> "yes"
    [] s = "PROD" -> "prod"
    [] s = "P" -> "p"
    [] s = "Prod account" -> "prod account"
    [] OTHER -> s

StrLen(s) == CASE s = "hunter2" -> 7 [] s = "master-pw1" -> 10 [] OTHER -> 0

\* crypto.createHash('sha256').update(password).digest('hex')
cliHashPassword(password) == <<"sha256", password>>

\* crypto.createCipher('aes-256-cbc', sessionKey): the key follows from the
\* password alone.
cliEncrypt(text, sk) == [kind |-> "cbc", key |-> <<"EVP", sk>>, pt |-> text]

cliDecrypt(encrypted, sk) ==
  IF encrypted.key = <<"EVP", sk>> THEN encrypted.pt ELSE "bad decrypt"

\* The browser extension's state, which these programs never touch.
browserVars ==
  <<passwordHash, vaultData, isUnlocked, sessionKey, now, autoLockAlarm,
    checkAlarm, lastAuth, settingsAt, procs, base, knownBreachedPrefixes>>

\* No command and no write of the MCP server is under way.
Quiet == cli.pc = "idle" /\ mcp.pc = "idle"

\* saveVault: fs.writeFileSync opens vault.json for writing, which empties
\* it, and then writes the text.  The command is now inside that call.
saveVault(vault) ==
  /\ disk' = [disk EXCEPT !.vault = PartialFile]
  /\ cli' = [pc |-> "saving", pending |-> vault, before |-> disk.vault]

\* requireUnlocked: loadVault, then unlockVault asking for the password
\* (a new process holds no sessionKey).  "" when the vault is unlocked.
cliRequireUnlocked(file, password) ==
  IF file.state = "partial" THEN "SyntaxError"
  ELSE IF file.state = "absent" THEN "Vault not found"
  ELSE IF cliHashPassword(password) # file.value.passwordHash
       THEN InvalidPasswordError
  ELSE ""

\* keyvault init
cliInit(overwrite, password, confirmPassword) ==
  /\ Quiet
  /\ LET cancelled == disk.vault.state # "absent"
                        /\ toLowerCase(overwrite) # "yes"
         err == IF cancelled THEN ""
                ELSE IF password # confirmPassword THEN "Passwords do not match"
                ELSE IF StrLen(password) < MinPasswordLength
                     THEN "Password must be at least 8 characters"
                ELSE ""
     IN /\ resp' = Response("keyvault init", overwrite, FALSE, err, 0)
        /\ IF ~cancelled /\ err = ""
           THEN saveVault([created |-> now,
                           passwordHash |-> cliHashPassword(password),
                           keys |-> <<>>])
           ELSE UNCHANGED <<disk, cli>>
  /\ UNCHANGED <<browserVars, nextId, mcp>>

\* keyvault add <serviceName> <keyValue> [environment]; "" stands for an
\* environment not given.
cliAddKey(password, serviceName, keyValue, environment) ==
  /\ Quiet
  /\ LET err == cliRequireUnlocked(disk.vault, password)
         room == Len(disk.vault.value.keys) < MaxKeys /\ nextId < Len(IdNames)
         key == [id |-> generateId(nextId), serviceName |-> serviceName,
                 keyValue |-> cliEncrypt(keyValue, password),
                 environment |-> OrStr(environment, "production"),
                 tags |-> <<>>,
                 createdAt |-> now, lastUsed |-> NoTime, usageCount |-> 0]
     IN /\ err = "" => room
        /\ resp' = Response("keyvault add", serviceName, err = "", err, 0)
        /\ IF err = ""
           THEN /\ saveVault([disk.vault.value EXCEPT
                                !.keys = Append(@, key)])
                /\ nextId' = nextId + 1
           ELSE UNCHANGED <<disk, cli, nextId>>
  /\ UNCHANGED <<browserVars, mcp>>

\* keyvault export: the keys go to the export file decrypted.
cliExportVault(password) ==
  /\ Quiet
  /\ LET err == cliRequireUnlocked(disk.vault, password)
         plain(k) == [k EXCEPT !.keyValue = cliDecrypt(k.keyValue, password)]
         keys == disk.vault.value.keys
     IN /\ resp' = Response("keyvault export", "", err = "", err, 0)
        /\ disk' = IF err # "" THEN disk
                   ELSE [disk EXCEPT !.export =
                           File([exportedAt |-> now,
                                 keys |-> [i \in 1..Len(keys) |-> plain(keys[i])]])]
  /\ UNCHANGED <<browserVars, nextId, cli, mcp>>

\* writeFileSync returns: vault.json holds the new text.
cliSaved ==
  /\ cli.pc = "saving"
  /\ disk' = [disk EXCEPT !.vault = File(cli.pending)]
  /\ cli' = IdleCli
  /\ UNCHANGED <<browserVars, nextId, resp, mcp>>

\* The process dies inside writeFileSync (kill, power loss).
cliCrash ==
  /\ cli.pc = "saving"
  /\ cli' = IdleCli
  /\ resp' = Response("crash", "keyvault", FALSE, "", 0)
  /\ UNCHANGED <<browserVars, nextId, disk, mcp>>

(***************************************************************************)
(* The MCP server (class KeyVaultMCPServer): one process, reading          *)
(* vault.json and mcp-session.json anew for every tool call.               *)
(***************************************************************************)
\* loadSession: this.sessionKey after it.  A session is taken up while it
\* is younger than 3600000 ms, which is 60 * MinuteTicks ticks.
loadSession(file, sk, t) ==
  IF file.state = "whole" /\ t - file.value.timestamp < 60 * MinuteTicks
  THEN file.value.key ELSE sk

\* unlock_vault
mcpUnlockVault(password) ==
  /\ Quiet
  /\ LET err == IF disk.vault.state = "partial" THEN "SyntaxError"
                ELSE IF disk.vault.state = "absent" THEN "Vault not found"
                ELSE IF cliHashPassword(password) # disk.vault.value.passwordHash
                     THEN InvalidPasswordError
                ELSE ""
     IN /\ resp' = Response("unlock_vault", password, FALSE, err, 0)
        /\ IF err # "" THEN UNCHANGED <<disk, mcp>>
           ELSE /\ mcp' = [mcp EXCEPT !.sessionKey = password]
                /\ disk' = [disk EXCEPT !.session =
                              File([key |-> password, timestamp |-> now])]
  /\ UNCHANGED <<browserVars, nextId, cli>>

\* A find that settles for the service's entry of any environment.
mcpFindKey_AnyEnvironment(keys, serviceName, environment) ==
  LET hits == {j \in 1..Len(keys) :
                 toLowerCase(keys[j].serviceName) = toLowerCase(serviceName)}
  IN IF hits = {} THEN 0 ELSE CHOOSE j \in hits : \A k \in hits : j <= k

\* this.vault.keys.find(...) of getApiKey: the index of the first entry of
\* the service, ignoring case, in the environment; 0 when there is none.
mcpFindKey(keys, serviceName, environment) ==
  LET hits == {j \in 1..Len(keys) :
                 /\ toLowerCase(keys[j].serviceName) = toLowerCase(serviceName)
                 /\ keys[j].environment = environment}
  IN IF hits = {} THEN 0 ELSE CHOOSE j \in hits : \A k \in hits : j <= k

\* get_api_key: the usage statistics go to vault.json by fs.writeFile,
\* which empties the file before it writes.
mcpGetApiKey(serviceName, environment) ==
  /\ Quiet
  /\ LET vaultErr == IF disk.vault.state = "partial" THEN "SyntaxError" ELSE ""
         sk == IF vaultErr # "" THEN mcp.sessionKey
               ELSE loadSession(disk.session, mcp.sessionKey, now)
         err == IF vaultErr # "" THEN vaultErr
                ELSE IF disk.vault.state = "absent" THEN "Vault not found"
                ELSE IF sk = Null THEN LockedError
                ELSE ""
         keys == disk.vault.value.keys
         i == mcpFindKey(keys, serviceName, environment)
         \* the second find, for the error's text
         anyEnvKey == \E j \in 1..Len(keys) :
                        toLowerCase(keys[j].serviceName) = toLowerCase(serviceName)
         decrypted == cliDecrypt(keys[i].keyValue, sk)
         used == [keys[i] EXCEPT !.lastUsed = now,
                                 !.usageCount = keys[i].usageCount + 1]
     IN IF err # "" \/ i = 0 \/ decrypted = "bad decrypt"
        THEN /\ resp' = Response("get_api_key", serviceName, err = "",
                                 IF err # "" THEN err
                                 ELSE IF i = 0 /\ anyEnvKey
                                      THEN "Key found in another environment"
                                 ELSE IF i = 0 THEN "API key not found"
                                 ELSE "bad decrypt", 0)
             /\ mcp' = [mcp EXCEPT !.sessionKey = sk]
             /\ UNCHANGED disk
        ELSE /\ keys[i].usageCount < MaxUsage
             /\ resp' = Response("get_api_key", serviceName, TRUE, "", decrypted)
             /\ disk' = [disk EXCEPT !.vault = PartialFile]
             /\ mcp' = [sessionKey |-> sk, pc |-> "saving",
                        pending |-> [disk.vault.value EXCEPT !.keys[i] = used],
                        before |-> disk.vault]
  /\ UNCHANGED <<browserVars, nextId, cli>>

\* fs.writeFile resolves: vault.json holds the new text.
mcpSaved ==
  /\ mcp.pc = "saving"
  /\ disk' = [disk EXCEPT !.vault = File(mcp.pending)]
  /\ mcp' = [mcp EXCEPT !.pc = "idle", !.pending = <<>>, !.before = NoFile]
  /\ UNCHANGED <<browserVars, nextId, resp, cli>>

\* The server dies inside fs.writeFile and is started again.
mcpCrash ==
  /\ mcp.pc = "saving"
  /\ mcp' = NewMcp
  /\ resp' = Response("crash", "mcp", FALSE, "", 0)
  /\ UNCHANGED <<browserVars, nextId, disk, cli>>

NextCli ==
  \/ \E a \in Answers, p, c \in CliPasswords : cliInit(a, p, c)
  \/ \E p \in CliPasswords : cliAddKey(p, "OpenAI", "sk-AAA", "")
  \/ \E p \in CliPasswords : cliExportVault(p)
  \/ cliSaved
  \/ cliCrash
  \/ \E p \in CliPasswords : mcpUnlockVault(p)
  \/ mcpGetApiKey("openai", "production")
  \/ mcpSaved
  \/ mcpCrash

SpecCli == Init /\ [][NextCli]_vars

(***************************************************************************)
(* The MCP server's tools and resources that tell about the entries.       *)
(***************************************************************************)
\* What the user searches for.
Queries == {"open", "PROD"}

\* String.prototype.includes on lower-case strings in use.
Includes(s, q) ==
  \/ q = ""
  \/ s = q
  \/ <<s, q>> \in {<<"openai", "open">>, <<"production", "prod">>,
                   <<"prod account", "prod">>}

\* requireUnlocked: the error it throws and this.sessionKey after it.
mcpRequireUnlocked ==
  LET vaultErr == IF disk.vault.state = "partial" THEN "SyntaxError" ELSE ""
      sk == IF vaultErr # "" THEN mcp.sessionKey
            ELSE loadSession(disk.session, mcp.sessionKey, now)
  IN [sk |-> sk,
      err |-> IF vaultErr # "" THEN vaultErr
              ELSE IF disk.vault.state = "absent" THEN "Vault not found"
              ELSE IF sk = Null THEN LockedError
              ELSE ""]

\* list_api_keys
mcpListApiKeys(environment, tags) ==
  /\ Quiet
  /\ LET req == mcpRequireUnlocked
         keys == disk.vault.value.keys
         byEnv == IF environment = "" THEN keys
                  ELSE SelectSeq(keys, LAMBDA k : k.environment = environment)
         byTag == IF Len(tags) = 0 THEN byEnv
                  ELSE SelectSeq(byEnv, LAMBDA k :
                         \E i \in 1..Len(tags), j \in 1..Len(k.tags) :
                           k.tags[j] = tags[i])
         item(k) == [serviceName |-> k.serviceName, environment |-> k.environment,
                     tags |-> k.tags, hasExpiration |-> FALSE,
                     lastUsed |-> k.lastUsed, usageCount |-> k.usageCount]
     IN /\ resp' = Response("list_api_keys", environment, req.err = "", req.err,
                            IF req.err # "" THEN <<>>
                            ELSE [i \in 1..Len(byTag) |-> item(byTag[i])])
        /\ mcp' = [mcp EXCEPT !.sessionKey = req.sk]
  /\ UNCHANGED <<browserVars, nextId, disk, cli>>

\* search_api_keys
mcpSearchApiKeys(query) ==
  /\ Quiet
  /\ LET req == mcpRequireUnlocked
         lowerQuery == toLowerCase(query)
         results == SelectSeq(disk.vault.value.keys, LAMBDA k :
                      \/ Includes(toLowerCase(k.serviceName), lowerQuery)
                      \/ \E j \in 1..Len(k.tags) :
                           Includes(toLowerCase(k.tags[j]), lowerQuery)
                      \/ /\ "notes" \in DOMAIN k
                         /\ Includes(toLowerCase(k.notes), lowerQuery))
         item(k) == [serviceName |-> k.serviceName, environment |-> k.environment,
                     tags |-> k.tags]
     IN /\ resp' = Response("search_api_keys", query, req.err = "", req.err,
                            IF req.err # "" THEN <<>>
                            ELSE [i \in 1..Len(results) |-> item(results[i])])
        /\ mcp' = [mcp EXCEPT !.sessionKey = req.sk]
  /\ UNCHANGED <<browserVars, nextId, disk, cli>>

\* get_key_info
mcpGetKeyInfo(serviceName) ==
  /\ Quiet
  /\ LET req == mcpRequireUnlocked
         keys == SelectSeq(disk.vault.value.keys, LAMBDA k :
                   toLowerCase(k.serviceName) = toLowerCase(serviceName))
         err == IF req.err # "" THEN req.err
                ELSE IF Len(keys) = 0 THEN "No keys found for service"
                ELSE ""
         item(k) == [serviceName |-> k.serviceName, environment |-> k.environment,
                     tags |-> k.tags, createdAt |-> k.createdAt,
                     lastUsed |-> k.lastUsed, usageCount |-> k.usageCount]
     IN /\ resp' = Response("get_key_info", serviceName, req.err = "", err,
                            IF err # "" THEN <<>>
                            ELSE [i \in 1..Len(keys) |-> item(keys[i])])
        /\ mcp' = [mcp EXCEPT !.sessionKey = req.sk]
  /\ UNCHANGED <<browserVars, nextId, disk, cli>>

\* resources/read of keyvault://keys: loadVault, and no look at the session.
mcpReadKeys ==
  /\ Quiet
  /\ LET err == IF disk.vault.state = "partial" THEN "SyntaxError"
                ELSE IF disk.vault.state = "absent" THEN "Vault not found"
                ELSE ""
         keys == disk.vault.value.keys
         item(k) == [id |-> k.id, serviceName |-> k.serviceName,
                     environment |-> k.environment, tags |-> k.tags,
                     createdAt |-> k.createdAt, lastUsed |-> k.lastUsed,
                     usageCount |-> k.usageCount]
     IN resp' = Response("resources/read", "keyvault://keys", FALSE, err,
                         IF err # "" THEN <<>>
                         ELSE [i \in 1..Len(keys) |-> item(keys[i])])
  /\ UNCHANGED <<browserVars, nextId, disk, cli, mcp>>

\* Half an hour goes by with nothing asked of the server.
HalfHourPasses ==
  /\ now < MaxHalfHours * 30 * MinuteTicks
  /\ now' = now + 30 * MinuteTicks
  /\ UNCHANGED <<passwordHash, vaultData, isUnlocked, sessionKey, autoLockAlarm,
                 checkAlarm, lastAuth, settingsAt, procs, base, nextId, resp,
                 fileVars, knownBreachedPrefixes>>

NextMcp ==
  \/ \E p \in CliPasswords : cliInit("yes", p, p)
  \/ cliAddKey("master-pw1", "OpenAI", "sk-AAA", "")
  \/ cliSaved
  \/ \E p \in CliPasswords : mcpUnlockVault(p)
  \/ mcpListApiKeys("production", <<>>)
  \/ \E q \in Queries : mcpSearchApiKeys(q)
  \/ mcpGetKeyInfo("openai")
  \/ mcpGetApiKey("openai", "production")
  \/ mcpSaved
  \/ mcpCrash
  \/ mcpReadKeys
  \/ HalfHourPasses

SpecMcp == Init /\ [][NextMcp]_vars

\* Initialization, of the extension's store and of the tool's vault file.
NextInit ==
  \/ initialize
  \/ unlockVault("pw1")
  \/ lockVault
  \/ addKey(FormData("OpenAI", "sk-AAA", <<>>))
  \/ \E a \in Answers, p, c \in CliPasswords : cliInit(a, p, c)
  \/ \E p \in CliPasswords : cliAddKey(p, "OpenAI", "sk-AAA", "")
  \/ cliSaved

SpecInit == Init /\ [][NextInit]_vars

(***************************************************************************)
(* Backups: the popup saves exportVault's answer as a .kvp file, and reads *)
(* a .kvp file (its own or one from elsewhere) for importVault.            *)
(***************************************************************************)
\* After a successful 'exportVault' the popup downloads response.data.
downloadBackup ==
  /\ resp.op = "exportVault" /\ resp.err = ""
  /\ disk' = [disk EXCEPT !.backup = File(resp.val)]
  /\ UNCHANGED <<passwordHash, vaultData, isUnlocked, sessionKey, now,
                 autoLockAlarm, checkAlarm, nextId, resp, lastAuth, settingsAt,
                 procs, base, cli, mcp, knownBreachedPrefixes>>

\* The popup's importVault on the file downloaded before.
importBackup(masterPassword) ==
  /\ disk.backup.state = "whole"
  /\ importVault(disk.backup.value, masterPassword)

\* A backup of another vault whose entry is named in lower case.
LowerBlobs ==
  LET data == SM_addKey(EmptyData, TRUE, "pw2",
                        FormData("openai", "sk-CCC", <<>>),
                        "C", "#00A67E", "salt", 1).data
  IN {BackupBlob(data, b, "salt", 1) : b \in BackupPasswords}

NextImport ==
  \/ unlockVault("pw1")
  \/ updateSettings(SettingsObj(1, FALSE))
  \/ addKey(FormData("OpenAI", "sk-AAA", <<>>))
  \/ \E u \in UpdateInputs : updateKey("k1", FormUpdates(u))
  \/ deleteKey("k1")
  \/ \E p \in BackupPasswords : exportVault(p)
  \/ downloadBackup
  \/ \E p \in BackupPasswords : importBackup(p)
  \/ \E b \in LowerBlobs, p \in BackupPasswords : importVault(b, p)

SpecImport == Init /\ [][NextImport]_vars

\* The files an importVault request of this state can have been given.
ImportFiles ==
  LowerBlobs \cup (IF disk.backup.state = "whole" THEN {disk.backup.value}
                   ELSE {})

\* C17 (import duplicates, ignoring case): a successful import appends
\* exactly the incoming entries whose serviceName equals, ignoring case,
\* that of no stored entry, and skips the others.
C17_ImportIgnoresCase ==
  [][(resp'.op = "importVault" /\ resp'.called /\ resp'.err = "")
       => \E b \in ImportFiles :
            LET d == decryptData(b, resp'.arg)
                stored == {toLowerCase(n) : n \in ServiceNames(vaultData.keys)}
                isNew(k) == toLowerCase(k.serviceName) \notin stored
            IN /\ d.ok
               /\ vaultData'.keys
                    = vaultData.keys \o SelectSeq(d.value.keys, isNew)]_vars

\* C18 (unique ids): no two stored entries carry the same id, whatever
\* addKey, updateKey, deleteKey and importData requests were handled.
C18_UniqueIds ==
  \A i, j \in 1..Len(vaultData.keys) :
    i # j => vaultData.keys[i].id # vaultData.keys[j].id

\* C12 (initialization is not repeated): StorageManager.initialize on a
\* store whose initialized flag is set changes nothing in it, and `keyvault
\* init` on an existing vault file leaves the file as it is unless the
\* overwrite question was answered yes.
C12_InitOnce ==
  [][/\ (resp'.op = "initialize" /\ vaultData.initialized)
          => vaultData' = vaultData
     /\ (resp'.op = "keyvault init" /\ Quiet /\ disk.vault.state # "absent"
           /\ toLowerCase(resp'.arg) # "yes")
          => disk' = disk /\ cli' = cli]_vars

\* initialize was called on an initialized store that holds an entry, next
\* to a vault file that holds one.
C12_Witness ==
  /\ resp.op = "initialize"
  /\ vaultData.initialized /\ Len(vaultData.keys) > 0
  /\ disk.vault.state = "whole" /\ Len(disk.vault.value.keys) > 0

\* C19 (atomic commit of the vault file): when a process dies while it
\* saves vault.json (the tool's saveVault, the server's usage update), the
\* file is what it was before the save began.
C19_AtomicSave ==
  [][/\ (resp'.op = "crash" /\ cli.pc = "saving" /\ cli.before.state = "whole")
          => disk'.vault = cli.before
     /\ (resp'.op = "crash" /\ mcp.pc = "saving" /\ mcp.before.state = "whole")
          => disk'.vault = mcp.before]_vars

\* C20 (no plaintext at rest): no file holds a secret or a master password
\* in the clear: the vault file and the extension's store hold ciphertexts
\* and hashes, the export file holds no decrypted key value, the session
\* file holds no password.
C20_NoPlaintextAtRest ==
  /\ \A i \in 1..Len(vaultData.keys) : vaultData.keys[i].keyValue.kind = "gcm"
  /\ disk.vault.state = "whole" =>
       /\ disk.vault.value.passwordHash[1] = "sha256"
       /\ \A i \in 1..Len(disk.vault.value.keys) :
            disk.vault.value.keys[i].keyValue.kind = "cbc"
  /\ disk.export.state = "whole" =>
       \A i \in 1..Len(disk.export.value.keys) :
         disk.export.value.keys[i].keyValue \notin {"sk-AAA", "sk-BBB"}
  /\ disk.session.state = "whole" => disk.session.value.key \notin CliPasswords

(***************************************************************************)
(* The session alone: unlocking, locking, the settings and the alarms.     *)
(***************************************************************************)
NextSession ==
  \/ \E p \in Passwords : unlockVault(p)
  \/ lockVault
  \/ \E n \in SettingsInputs : updateSettings(n)
  \/ Tick
  \/ onAlarmAutoLock
  \/ onAlarmCheck

SpecSession == InitTime /\ [][NextSession]_vars

\* C21 (session key lifetime): StorageManager holds a session key exactly
\* while the vault is unlocked, that is from a successful unlock to the next
\* lock, be it requested or brought by an alarm.
C21_SessionKeyLifetime == (sessionKey # Null) <=> isUnlocked

\* An alarm has locked a vault that had been unlocked.
C21_Witness ==
  /\ resp.op = "onAlarm" /\ resp.arg = "auto-lock"
  /\ ~isUnlocked /\ sessionKey = Null

(***************************************************************************)
(* The MCP server's session.                                               *)
(***************************************************************************)
\* The tools that call requireUnlocked.
UnlockedTools ==
  {"list_api_keys", "search_api_keys", "get_api_key", "get_key_info"}

\* C22 (session expiry): a tool that needs the unlocked vault, called more
\* than one hour after the last successful unlock_vault, fails with
\* 'Vault is locked', also inside one server process that ran all the time.
\* (The session file carries the time of the last successful unlock_vault.)
C22_SessionExpires ==
  [][(/\ Quiet /\ now' = now /\ resp'.op \in UnlockedTools
      /\ disk.vault.state = "whole" /\ disk.session.state = "whole"
      /\ now - disk.session.value.timestamp > 60 * MinuteTicks)
     => resp'.err = LockedError]_vars

\* C23 (no data without a session): a request that tells about the entries
\* of a vault holding some entry fails when the server holds no session key
\* and no valid session file exists.
C23_LockedServerTellsNothing ==
  [][(/\ Quiet /\ now' = now
      /\ resp'.op \in UnlockedTools \cup {"resources/read"}
      /\ disk.vault.state = "whole" /\ Len(disk.vault.value.keys) > 0
      /\ mcp.sessionKey = Null
      /\ loadSession(disk.session, Null, now) = Null)
     => resp'.err # ""]_vars

(***************************************************************************)
(* Listing and searching the entries, and the usage statistics.            *)
(***************************************************************************)
\* 'searchKeys'
searchKeys(query) ==
  /\ LET r == SM_getAllKeys(vaultData, isUnlocked, sessionKey, now)
         lowerQuery == toLowerCase(query)
         hit(key) ==
           \/ Includes(toLowerCase(key.serviceName), lowerQuery)
           \/ \E j \in 1..Len(key.tags) :
                Includes(toLowerCase(key.tags[j]), lowerQuery)
           \/ Includes(toLowerCase(key.notes), lowerQuery)
           \/ Includes(toLowerCase(key.environment), lowerQuery)
     IN Finish("searchKeys", query, [r EXCEPT !.val = SelectSeq(r.val, hit)], <<>>)
  /\ UNCHANGED nextId

\* Entries of the popup's form: one plain, one a tagged favorite.
ListInputs ==
  {FormData("OpenAI", "sk-AAA", <<"api.openai.com">>),
   [FormData("Stripe", "sk-BBB", <<>>) EXCEPT
      !.favorite = TRUE, !.tags = <<"pay">>, !.environment = "development",
      !.notes = "Prod account"]}

\* 'getKeys' messages: data.filter with one key set, or none.
AnyFilter == [tag |-> ""] @@ NoFilter
ListFilters ==
  {AnyFilter,
   [AnyFilter EXCEPT !.domain = "api.openai.com"],
   [AnyFilter EXCEPT !.favorite = TRUE],
   [AnyFilter EXCEPT !.environment = "development"],
   [AnyFilter EXCEPT !.tag = "pay"]}

\* 'recordKeyUsage' messages: the entry and the page's hostname, if any.
UsageIds == {"k1", "k2"}
UsageDomains == {"", "api.openai.com"}

NextList ==
  \/ unlockVault("pw1")
  \/ \E k \in ListInputs : addKey(k)
  \/ \E id \in UsageIds, d \in UsageDomains : recordKeyUsage(id, d)
  \/ \E f \in ListFilters : getKeys(f)
  \/ \E q \in Queries : searchKeys(q)
  \/ Tick

SpecList == Init /\ [][NextList]_vars

\* C24 (metadata-only listing): what list and search return holds neither
\* the plaintext nor the ciphertext of an entry.
C24_ListingHasNoSecret ==
  (resp.op \in {"getKeys", "searchKeys"} /\ resp.err = "")
    => \A i \in 1..Len(resp.val) : "keyValue" \notin DOMAIN resp.val[i]

\* The order the default list is to have: a comes strictly before b.
ListedBefore(a, b) ==
  LET idx(id) == CHOOSE n \in 1..Len(IdNames) : IdNames[n] = id
  IN IF a.favorite # b.favorite THEN a.favorite
     ELSE IF a.lastUsed # b.lastUsed
          THEN b.lastUsed = NoTime \/ (a.lastUsed # NoTime /\ a.lastUsed > b.lastUsed)
     ELSE IF a.createdAt # b.createdAt THEN a.createdAt > b.createdAt
     ELSE idx(a.id) < idx(b.id)

\* C25 (default list order): a list comes with favorites first, then by
\* lastUsed descending with the never-used entries last, then by createdAt
\* descending, then by id.
C25_DefaultOrder ==
  (resp.op = "getKeys" /\ resp.err = "")
    => \A i, j \in 1..Len(resp.val) :
         i < j => ~ListedBefore(resp.val[j], resp.val[i])

\* An entry satisfies every key the filter carries.
Satisfies(k, f) ==
  /\ f.domain # "" => SeqContains(k.domains, f.domain)
  /\ f.environment # "" => k.environment = f.environment
  /\ f.tag # "" => SeqContains(k.tags, f.tag)
  /\ f.favorite => k.favorite

\* C26 (filters): getKeys(filter) returns exactly the entries of the default
\* list that satisfy every key of the filter, in the default list's order.
C26_FilterExact ==
  [][\A f \in ListFilters :
       (getKeys(f) /\ resp'.err = "")
         => resp'.val =
              SelectSeq(SM_getAllKeys(vaultData, isUnlocked, sessionKey, now).val,
                        LAMBDA k : Satisfies(k, f))]_vars

\* The query is, ignoring case, a substring of the entry's serviceName, of
\* one of its tags, of its environment, or of its notes.
Matches(k, q) ==
  LET lq == toLowerCase(q)
  IN \/ Includes(toLowerCase(k.serviceName), lq)
     \/ \E j \in 1..Len(k.tags) : Includes(toLowerCase(k.tags[j]), lq)
     \/ Includes(toLowerCase(k.environment), lq)
     \/ "notes" \in DOMAIN k /\ Includes(toLowerCase(k.notes), lq)

\* C27 (search): a search returns exactly the entries the query matches in
\* serviceName, a tag, environment or notes, whether an entry has notes or
\* not; in the extension and in the MCP server.
C27_SearchExact ==
  [][\A q \in Queries :
       /\ (searchKeys(q) /\ resp'.err = "")
            => resp'.val =
                 SelectSeq(SM_getAllKeys(vaultData, isUnlocked, sessionKey, now).val,
                           LAMBDA k : Matches(k, q))
       /\ (mcpSearchApiKeys(q) /\ resp'.err = "")
            => Len(resp'.val) =
                 Len(SelectSeq(disk.vault.value.keys, LAMBDA k : Matches(k, q)))]_vars

\* The usage statistics alone.
NextUsage ==
  \/ unlockVault("pw1")
  \/ \E k \in ListInputs : addKey(k)
  \/ \E id \in UsageIds, d \in UsageDomains : recordKeyUsage(id, d)
  \/ Tick

SpecUsage == Init /\ [][NextUsage]_vars

\* C28 (effect of recordKeyUsage): a successful recordKeyUsage(id, domain)
\* on an unlocked vault sets the entry's lastUsed to now, adds 1 to its
\* usageCount, appends domain to its domains exactly when domain is not
\* empty and not among them, and changes no other field and no other entry.
C28_UsageEffect ==
  [][\A id \in UsageIds, d \in UsageDomains :
       (/\ recordKeyUsage(id, d) /\ isUnlocked /\ resp'.err = ""
        /\ IndexOfId(vaultData.keys, id) # 0)
       => LET i == IndexOfId(vaultData.keys, id)
              old == vaultData.keys[i]
              new == vaultData'.keys[i]
          IN /\ Len(vaultData'.keys) = Len(vaultData.keys)
             /\ \A j \in 1..Len(vaultData.keys) :
                  j # i => vaultData'.keys[j] = vaultData.keys[j]
             /\ new.lastUsed = now
             /\ new.usageCount = old.usageCount + 1
             /\ new.domains = IF d # "" /\ ~SeqContains(old.domains, d)
                              THEN Append(old.domains, d) ELSE old.domains
             /\ DOMAIN new = DOMAIN old
             /\ \A f \in DOMAIN old \ {"lastUsed", "usageCount", "domains"} :
                  new[f] = old[f]]_vars

\* A usage was recorded for the second of two entries, on a page whose
\* hostname the entry did not have.
C28_Witness ==
  /\ resp.op = "recordKeyUsage" /\ resp.arg = "k2" /\ resp.err = "" /\ isUnlocked
  /\ Len(vaultData.keys) = 2
  /\ vaultData.keys[2].serviceName = "Stripe"
  /\ vaultData.keys[2].domains = <<"api.openai.com">>
  /\ vaultData.keys[2].usageCount = 1 /\ vaultData.keys[2].lastUsed = now
  /\ vaultData.keys[1].usageCount = 0

\* C29 (unknown id): on an unlocked vault that holds entries, getKey,
\* updateKey, deleteKey and recordKeyUsage with an id no stored entry has
\* report 'Key not found' and leave the stored entries as they were.
C29_UnknownId ==
  [][(/\ isUnlocked /\ vaultData.keysDefined
      /\ resp'.op \in {"getKeyById", "updateKey", "deleteKey", "recordKeyUsage"}
      /\ IndexOfId(vaultData.keys, resp'.arg) = 0)
     => /\ resp'.err = NotFoundError
        /\ vaultData'.keys = vaultData.keys]_vars

(***************************************************************************)
(* What addKey takes.                                                      *)
(***************************************************************************)
\* 'addKey' messages: a complete entry, one without a service name, one
\* without a secret, one with an environment of its own.
AddInputs ==
  {FormData("OpenAI", "sk-AAA", <<>>),
   FormData("", "sk-AAA", <<>>),
   FormData("OpenAI", "", <<>>),
   [FormData("Stripe", "sk-BBB", <<>>) EXCEPT !.environment = "prod"]}

NextAdd ==
  \/ unlockVault("pw1")
  \/ lockVault
  \/ \E k \in AddInputs : addKey(k)
  \/ \E id \in UsageIds : getKeyById(id)
  \/ \E id \in UsageIds : deleteKey(id)

SpecAdd == Init /\ [][NextAdd]_vars

\* C30 (add validation): an addKey whose service name or secret is empty is
\* rejected with an error and adds no entry; every stored entry has a
\* serviceName that is not empty and an environment among production,
\* development, staging and testing.
C30_AddValidation ==
  [][/\ \A k \in AddInputs :
          (addKey(k) /\ isUnlocked /\ (k.serviceName = "" \/ k.keyValue = ""))
            => resp'.err # "" /\ vaultData'.keys = vaultData.keys
     /\ \A i \in 1..Len(vaultData'.keys) :
          /\ vaultData'.keys[i].serviceName # ""
          /\ vaultData'.keys[i].environment \in
               {"production", "development", "staging", "testing"}]_vars

(***************************************************************************)
(* Unlock attempts.                                                        *)
(***************************************************************************)
\* C31 (unlock rate limiting): failed unlock attempts are counted, so that
\* the fifth in a row can be followed by a delay: an unlock answered with
\* 'Invalid master password' leaves its count in the state the program
\* keeps (its fields and its files).
C31_FailuresCounted ==
  [][(/\ Quiet /\ now' = now
      /\ resp'.op \in {"unlock_vault", "unlockVault"}
      /\ resp'.err = InvalidPasswordError)
     => <<passwordHash, vaultData, isUnlocked, sessionKey, autoLockAlarm,
          disk, mcp>>' #
        <<passwordHash, vaultData, isUnlocked, sessionKey, autoLockAlarm,
          disk, mcp>>]_vars

(***************************************************************************)
(* EncryptionService on bytes: what encryptData puts where, and where      *)
(* decryptData reads it.  A random byte is [b |-> n]; a byte of AES-GCM    *)
(* output is a record of the key, the iv and the plaintext it came from,   *)
(* the last one being the tag.                                             *)
(***************************************************************************)
saltLength == 16
ivLength == 12

\* crypto.getRandomValues(new Uint8Array(n)), three of its outcomes.
RandomBytes(n) == {[i \in 1..n |-> [b |-> v]] : v \in {0, 128, 255}}

\* TextEncoder.encode and TextDecoder.decode on the plaintexts in use.
Plaintexts == {"", "a", "ab"}
TextEncode(s) ==
  CASE s = "" -> <<>>
    [] s = "a" -> <<[b |-> 97]>>
    [] s = "ab" -> <<[b |-> 97], [b |-> 98]>>
TextDecode(bytes) ==
  CASE bytes = <<>> -> ""
    [] bytes = <<[b |-> 97]>> -> "a"
    [] bytes = <<[b |-> 97], [b |-> 98]>> -> "ab"
    [] OTHER -> "U+FFFD"

\* crypto.subtle.encrypt / decrypt with AES-GCM; decrypt rejects (NoBytes)
\* what was not sealed under this key and iv, or is not whole.
gcmEncrypt(key, iv, bytes) ==
  [i \in 1..(Len(bytes) + 1) |-> [k |-> key, iv |-> iv, pt |-> bytes, i |-> i]]
NoBytes == <<[b |-> 0 - 1]>>
gcmDecrypt(key, iv, ct) ==
  IF /\ Len(ct) >= 1
     /\ \A i \in 1..Len(ct) :
          /\ DOMAIN ct[i] = {"k", "iv", "pt", "i"}
          /\ ct[i] = [k |-> key, iv |-> iv, pt |-> ct[1].pt, i |-> i]
          /\ Len(ct[1].pt) + 1 = Len(ct)
  THEN ct[1].pt ELSE NoBytes

\* btoa over the bytes, and atob back to a Uint8Array.
arrayBufferToBase64(buffer) == <<"base64", buffer>>
base64ToArrayBuffer(base64) == base64[2]

\* combined.slice(from, to), zero-based and end-exclusive.
Slice(bytes, from, to) ==
  IF from >= Len(bytes) THEN <<>>
  ELSE SubSeq(bytes, from + 1, IF to < Len(bytes) THEN to ELSE Len(bytes))

EncryptBytes(data, password, salt, iv) ==
  LET key == deriveKey(password, salt)
      encryptedData == gcmEncrypt(key, iv, TextEncode(data))
  IN arrayBufferToBase64(salt \o iv \o encryptedData)

\* A decryptData that looks for the iv at the start of the bytes.
DecryptBytes_IvAtZero(encryptedBase64, password) ==
  LET combined == base64ToArrayBuffer(encryptedBase64)
      salt == Slice(combined, 0, saltLength)
      iv == Slice(combined, 0, ivLength)
      encryptedData == Slice(combined, saltLength + ivLength, Len(combined))
      decryptedData == gcmDecrypt(deriveKey(password, salt), iv, encryptedData)
  IN IF decryptedData = NoBytes THEN [ok |-> FALSE, value |-> DecryptError]
     ELSE [ok |-> TRUE, value |-> TextDecode(decryptedData)]

DecryptBytes(encryptedBase64, password) ==
  LET combined == base64ToArrayBuffer(encryptedBase64)
      salt == Slice(combined, 0, saltLength)
      iv == Slice(combined, saltLength, saltLength + ivLength)
      encryptedData == Slice(combined, saltLength + ivLength, Len(combined))
      decryptedData == gcmDecrypt(deriveKey(password, salt), iv, encryptedData)
  IN IF decryptedData = NoBytes THEN [ok |-> FALSE, value |-> DecryptError]
     ELSE [ok |-> TRUE, value |-> TextDecode(decryptedData)]

\* encryptData(d, p): the call and what it returned.
encryptCall(d, p) ==
  /\ \E salt \in RandomBytes(saltLength), iv \in RandomBytes(ivLength) :
       resp' = Response("encryptData", <<d, p>>, FALSE, "",
                        EncryptBytes(d, p, salt, iv))
  /\ UNCHANGED <<passwordHash, vaultData, isUnlocked, sessionKey, now,
                 autoLockAlarm, checkAlarm, nextId, lastAuth, settingsAt, procs,
                 base, fileVars, knownBreachedPrefixes>>

\* decryptData(e, q) on what the last encryptData returned; the response
\* names d, p, q and e.
decryptCall(q) ==
  /\ resp.op = "encryptData"
  /\ LET r == DecryptBytes(resp.val, q)
     IN resp' = Response("decryptData", resp.arg \o <<q, resp.val>>, FALSE,
                         IF r.ok THEN "" ELSE r.value,
                         IF r.ok THEN r.value ELSE "")
  /\ UNCHANGED <<passwordHash, vaultData, isUnlocked, sessionKey, now,
                 autoLockAlarm, checkAlarm, nextId, lastAuth, settingsAt, procs,
                 base, fileVars, knownBreachedPrefixes>>

CryptoPasswords == {"pw1", "pw2", ""}

NextCrypto ==
  \/ \E d \in Plaintexts, p \in CryptoPasswords : encryptCall(d, p)
  \/ \E q \in CryptoPasswords : decryptCall(q)

SpecCrypto == Init /\ [][NextCrypto]_vars

\* C32 (encryption round trip): decryptData(encryptData(d, p), p) is d, and
\* decryptData(encryptData(d, p), q) with q other than p throws.
C32_RoundTrip ==
  resp.op = "decryptData"
    => LET d == resp.arg[1]
           p == resp.arg[2]
           q == resp.arg[3]
       IN IF q = p THEN resp.err = "" /\ resp.val = d
          ELSE resp.err = DecryptError

\* A non-empty plaintext came back under the password it was sealed with.
C32_Witness ==
  /\ resp.op = "decryptData"
  /\ resp.arg[1] = "ab" /\ resp.arg[2] = "pw1" /\ resp.arg[3] = "pw1"
  /\ resp.err = "" /\ resp.val = "ab"

(***************************************************************************)
(* generateSecureKey.                                                      *)
(***************************************************************************)
\* charset, character by character.
charset ==
  <<
    "A", "B", "C", "D", "E", "F", "G", "H", "I", "J", "K", "L", "M", "N",
    "O", "P", "Q", "R", "S", "T", "U", "V", "W", "X", "Y", "Z", "a", "b",
    "c", "d", "e", "f", "g", "h", "i", "j", "k", "l", "m", "n", "o", "p",
    "q", "r", "s", "t", "u", "v", "w", "x", "y", "z", "0", "1", "2", "3",
    "4", "5", "6", "7", "8", "9", "-", "_"
  >>

\* A variant that maps a byte onto the letters and digits only.
generateSecureKey_NoPunctuation(array) ==
  [i \in 1..Len(array) |-> charset[(array[i] % (Len(charset) - 2)) + 1]]

\* The loop of generateSecureKey over the random bytes: the key, character
\* by character.
generateSecureKey(array) ==
  [i \in 1..Len(array) |-> charset[(array[i] % Len(charset)) + 1]]

\* Values of crypto.getRandomValues for the bytes after the first.
ByteSamples == {64, 255}

\* 'generateKey': generateSecureKey(length) on some outcome of
\* crypto.getRandomValues.
generateKey(length) ==
  /\ \E first \in 0..255, rest \in [1..(length - 1) -> ByteSamples] :
       LET array == IF length = 0 THEN <<>> ELSE <<first>> \o rest
       IN resp' = Response("generateKey", <<length>>, FALSE, "",
                           generateSecureKey(array))
  /\ UNCHANGED <<passwordHash, vaultData, isUnlocked, sessionKey, now,
                 autoLockAlarm, checkAlarm, nextId, lastAuth, settingsAt, procs,
                 base, fileVars, knownBreachedPrefixes>>

NextGenerate == \E length \in 0..MaxKeyLength : generateKey(length)

SpecGenerate == Init /\ [][NextGenerate]_vars

\* The 64 characters A-Z, a-z, 0-9, '-' and '_'.
Alphabet64 ==
  {"A", "B", "C", "D", "E", "F", "G", "H", "I", "J", "K", "L", "M", "N", "O",
   "P", "Q", "R", "S", "T", "U", "V", "W", "X", "Y", "Z"} \cup
  {"a", "b", "c", "d", "e", "f", "g", "h", "i", "j", "k", "l", "m", "n", "o",
   "p", "q", "r", "s", "t", "u", "v", "w", "x", "y", "z"} \cup
  {"0", "1", "2", "3", "4", "5", "6", "7", "8", "9", "-", "_"}

EnvServices == {"openai", "stripe"}
EnvArgs == {"", "staging"}

NextEnv ==
  \/ cliInit("yes", "master-pw1", "master-pw1")
  \/ cliAddKey("master-pw1", "OpenAI", "sk-AAA", "")
  \/ cliAddKey("master-pw1", "OpenAI", "sk-DEV", "development")
  \/ cliSaved
  \/ mcpUnlockVault("master-pw1")
  \/ \E s \in EnvServices, e \in EnvArgs : mcpGetApiKey(s, OrStr(e, "development"))
  \/ mcpSaved

SpecEnv == Init /\ [][NextEnv]_vars

\* C34 (environment separation): get_api_key returns a key, and counts a
\* usage, only for the entry of the service in the environment asked for
\* ('development' when none is given); when the service has no entry in
\* that environment it answers with an error, no key value, and leaves the
\* vault file and its counters alone.
C34_EnvironmentSeparation ==
  [][\A s \in EnvServices, e \in EnvArgs :
       LET env == OrStr(e, "development")
           keys == disk.vault.value.keys
           match(k) == /\ toLowerCase(k.serviceName) = toLowerCase(s)
                       /\ k.environment = env
       IN (mcpGetApiKey(s, env) /\ disk.vault.state = "whole")
          => /\ resp'.err = ""
                  => \E i \in 1..Len(keys) :
                       /\ match(keys[i])
                       /\ resp'.val = cliDecrypt(keys[i].keyValue, mcp'.sessionKey)
                       /\ mcp'.pending.keys =
                            [keys EXCEPT ![i].usageCount = @ + 1,
                                         ![i].lastUsed = now]
             /\ (\A i \in 1..Len(keys) : ~match(keys[i]))
                  => /\ resp'.err # "" /\ resp'.val = 0
                     /\ disk' = disk /\ mcp'.pc = "idle"]_vars

\* The service is stored for production only, and a key for another
\* environment was asked for and refused.
C34_Witness ==
  /\ resp.op = "get_api_key" /\ resp.arg = "openai"
  /\ resp.err = "Key found in another environment"
  /\ mcp.sessionKey = "master-pw1"
  /\ disk.vault.state = "whole" /\ Len(disk.vault.value.keys) = 1
  /\ disk.vault.value.keys[1].environment = "production"
  /\ disk.vault.value.keys[1].usageCount = 0

(***************************************************************************)
(* Requests in flight together.                                            *)
(***************************************************************************)
\* C35 (write-once verifier): a stored password hash is never replaced,
\* whatever unlockVault requests are handled together, and whenever the
\* vault is unlocked sessionKey verifies against the stored hash.
C35_VerifierWriteOnce ==
  [][/\ passwordHash # NoHash => passwordHash' = passwordHash
     /\ isUnlocked' => /\ passwordHash' # NoHash
                       /\ HashMatches(passwordHash', sessionKey')]_vars

\* C36 (reads and bookkeeping leave the entries alone): the writes of
\* updateLastActivity and addAuditLog never add, remove or change a stored
\* entry, whatever requests are handled together, and an entry whose addKey
\* answered success stays stored (no deleteKey being sent).
C36_BookkeepingKeepsEntries ==
  [][/\ \A p \in ProcIds :
          (TouchGot(p) \/ AuditSettingsGot(p)) => vaultData'.keys = vaultData.keys
     /\ \A p \in ProcIds :
          (procs'[p].op = "addKey" /\ procs'[p].pc = "done" /\ procs'[p].err = "")
            => IndexOfId(vaultData'.keys, procs'[p].id) # 0]_vars

\* C37 (edit preserves what it does not name): an updateKey(id, updates)
\* that answers success changes, on the entry with that id, only fields
\* that updates names; the entry's id, createdAt, lastUsed and usageCount
\* and every other entry stay as they were; and getKey(id) then returns the
\* secret updates carried, or the previous secret when it carried none.
C37_EditPreserves ==
  [][\A id \in IdInputs :
       \A updates \in MessageUpdates \cup {FormUpdates(u) : u \in UpdateInputs} :
         (updateKey(id, updates) /\ resp'.err = "") =>
           LET i == IndexOfId(vaultData.keys, id)
               old == vaultData.keys[i]
               new == vaultData'.keys[i]
               before == SM_getKey(vaultData, TRUE, sessionKey, id, now)
               after == SM_getKey(vaultData', TRUE, sessionKey, id, now)
           IN /\ Len(vaultData'.keys) = Len(vaultData.keys)
              /\ \A j \in 1..Len(vaultData.keys) :
                   j # i => vaultData'.keys[j] = vaultData.keys[j]
              /\ \A f \in DOMAIN old \ DOMAIN updates : new[f] = old[f]
              /\ \A f \in {"id", "createdAt", "lastUsed", "usageCount"} :
                   new[f] = old[f]
              /\ after.err = ""
              /\ after.val.keyValue =
                   IF "keyValue" \in DOMAIN updates THEN updates["keyValue"]
                   ELSE before.val.keyValue]_vars

\* C38 (listing is complete): a getAllKeys that succeeds on an unlocked
\* vault returns as many elements as entries are stored, and every stored
\* entry's id is among them, whatever addKey, updateKey, deleteKey and
\* importData requests came before.
C38_ListingComplete ==
  [][(getKeys(NoFilter) /\ resp'.err = "") =>
       /\ Len(resp'.val) = Len(vaultData.keys)
       /\ \A i \in 1..Len(vaultData.keys) :
            IndexOfId(resp'.val, vaultData.keys[i].id) # 0]_vars

(***************************************************************************)
(* Importing twice: the extension's importVault request and the command    *)
(* line's `keyvault import`, which reads the file `keyvault export` wrote. *)
(***************************************************************************)
\* data.keys.forEach of importVault: a key whose serviceName the vault holds
\* by now is skipped; the others are pushed under a new id, encrypted again
\* and with a new createdAt.
RECURSIVE cliImportKeys(_, _, _, _, _)
cliImportKeys(keys, incoming, sk, n, t) ==
  IF incoming = <<>> THEN keys
  ELSE IF \E j \in 1..Len(keys) : keys[j].serviceName = incoming[1].serviceName
       THEN cliImportKeys(keys, Tail(incoming), sk, n, t)
  ELSE cliImportKeys(Append(keys, [incoming[1] EXCEPT !.id = generateId(n),
                                                      !.keyValue = cliEncrypt(@, sk),
                                                      !.createdAt = t]),
                     Tail(incoming), sk, n + 1, t)

\* keyvault import <file>, the file being the last export; the response
\* carries the count the command prints.
cliImportVault(password) ==
  /\ Quiet
  /\ LET unlockErr == cliRequireUnlocked(disk.vault, password)
         err == IF unlockErr # "" THEN unlockErr
                ELSE IF disk.export.state = "absent" THEN "File not found"
                ELSE ""
         imported == Cardinality(ServiceNames(disk.export.value.keys)
                                   \ ServiceNames(disk.vault.value.keys))
         keys == cliImportKeys(disk.vault.value.keys, disk.export.value.keys,
                               password, nextId, now)
     IN /\ err = "" => /\ Len(disk.vault.value.keys) + imported <= MaxKeys
                       /\ nextId + imported <= Len(IdNames)
        /\ resp' = Response("keyvault import", password, err = "", err,
                            IF err = "" THEN imported ELSE 0)
        /\ IF err = ""
           THEN /\ saveVault([disk.vault.value EXCEPT !.keys = keys])
                /\ nextId' = nextId + imported
           ELSE UNCHANGED <<disk, cli, nextId>>
  /\ UNCHANGED <<browserVars, mcp>>

NextTwice ==
  \/ unlockVault("pw1")
  \/ addKey(FormData("OpenAI", "sk-AAA", <<>>))
  \/ \E b \in ForeignBlobs \cup LowerBlobs, p \in BackupPasswords : importVault(b, p)
  \/ \E a \in {"yes"}, p \in {"master-pw1"} : cliInit(a, p, p)
  \/ \E s \in {"OpenAI", "Stripe"} : cliAddKey("master-pw1", s, "sk-AAA", "")
  \/ cliExportVault("master-pw1")
  \/ \E p \in CliPasswords : cliImportVault(p)
  \/ cliSaved

SpecTwice == Init /\ [][NextTwice]_vars

\* C39 (import is idempotent): once an import succeeded, importing the same
\* backup again leaves the stored entries and the settings as the first
\* import left them, for the extension's importData and for the command
\* line's import.
C39_ImportIdempotent ==
  [][/\ \A b \in ForeignBlobs \cup LowerBlobs, p \in BackupPasswords :
          (importVault(b, p) /\ resp'.err = "") =>
             LET again == SM_importData(vaultData', isUnlocked',
                                        decryptData(b, p).value)
             IN /\ again.err = ""
                /\ again.data.keys = vaultData'.keys
                /\ again.data.settingsDefined = vaultData'.settingsDefined
                /\ again.data.settings = vaultData'.settings
     /\ (cliSaved /\ resp.op = "keyvault import") =>
          cliImportKeys(disk'.vault.value.keys, disk.export.value.keys,
                        resp.arg, nextId', now') = disk'.vault.value.keys]_vars

C39_Witness ==
  /\ IndexOfId(vaultData.keys, "B") # 0
  /\ resp.op = "keyvault import" /\ resp.err = "" /\ resp.val > 0
  /\ cli.pc = "idle"

(***************************************************************************)
(* The breach detection service (class BreachDetector).  Key values are    *)
(* sequences of characters here, so that the checks read them as the code  *)
(* does.                                                                   *)
(***************************************************************************)
LowerOf(str) == [i \in 1..Len(str) |-> toLowerCase(str[i])]

\* String.prototype.includes, and a regular expression's ^text.
SeqIncludes(str, part) ==
  \E i \in 0..(Len(str) - Len(part)) : SubSeq(str, i + 1, i + Len(part)) = part

SeqStartsWith(str, part) ==
  Len(str) >= Len(part) /\ SubSeq(str, 1, Len(part)) = part

\* this.suspiciousPatterns, by their source text, and pattern.test(keyValue).
suspiciousPatterns ==
  <<"^(sk-|pk-)?test_", "^demo", "^sample", "^example", "1234567890",
    "password", "^(abc|xyz|foo|bar)">>

PatternTest(pattern, keyValue) ==
  LET lower == LowerOf(keyValue) IN
  CASE pattern = "^(sk-|pk-)?test_" ->
         \E pre \in {<<>>, <<"s", "k", "-">>, <<"p", "k", "-">>} :
            SeqStartsWith(lower, pre \o <<"t", "e", "s", "t", "_">>)
    [] pattern = "^demo" -> SeqStartsWith(lower, <<"d", "e", "m", "o">>)
    [] pattern = "^sample" -> SeqStartsWith(lower, <<"s", "a", "m", "p", "l", "e">>)
    [] pattern = "^example" ->
         SeqStartsWith(lower, <<"e", "x", "a", "m", "p", "l", "e">>)
    [] pattern = "1234567890" ->
         SeqIncludes(keyValue, <<"1", "2", "3", "4", "5", "6", "7", "8", "9", "0">>)
    [] pattern = "password" ->
         SeqIncludes(lower, <<"p", "a", "s", "s", "w", "o", "r", "d">>)
    [] pattern = "^(abc|xyz|foo|bar)" ->
         \E pre \in {<<"a", "b", "c">>, <<"x", "y", "z">>, <<"f", "o", "o">>,
                     <<"b", "a", "r">>} : SeqStartsWith(lower, pre)

weakKeys ==
  <<<<"p", "a", "s", "s", "w", "o", "r", "d">>,
    <<"1", "2", "3", "4", "5", "6", "7", "8">>,
    <<"q", "w", "e", "r", "t", "y">>,
    <<"a", "d", "m", "i", "n">>,
    <<"l", "e", "t", "m", "e", "i", "n">>,
    <<"w", "e", "l", "c", "o", "m", "e">>,
    <<"m", "o", "n", "k", "e", "y">>,
    <<"1", "2", "3", "4", "5", "6", "7", "8", "9", "0">>,
    <<"a", "b", "c", "1", "2", "3">>,
    <<"p", "a", "s", "s", "w", "o", "r", "d", "1", "2", "3">>>>

isWeakKey(keyValue) ==
  \E i \in 1..Len(weakKeys) : SeqIncludes(LowerOf(keyValue), weakKeys[i])

\* Math.log2(n) in thousandths, rounded, for n = 1..24.
Log2Milli ==
  <<0, 1000, 1585, 2000, 2322, 2585, 2807, 3000, 3170, 3322, 3459, 3585, 3700, 3807, 3907, 4000, 4087, 4170, 4248, 4322, 4392, 4459, 4524, 4585>>

\* calculateEntropy(str) < 3.5.  With c(x) the count of the character x,
\* the entropy is the mean over the positions i of log2(len / c(str[i]));
\* the sum is taken in thousandths, which is off by less than 0.001.
LowEntropy(str) ==
  LET len == Len(str)
      frequencies(x) == Cardinality({i \in 1..len : str[i] = x})
      sum[i \in 0..len] ==
        IF i = 0 THEN 0
        ELSE sum[i - 1] + Log2Milli[len] - Log2Milli[frequencies(str[i])]
  IN len = 0 \/ sum[len] < 3500 * len

\* checkKey(keyValue, serviceName) with this.knownBreachedPrefixes = known:
\* the checks in the order the method makes them, each one setting the
\* severity when it finds something.
BD_checkKey(keyValue, known) ==
  LET test(pattern) == PatternTest(pattern, keyValue)
      hits == SelectSeq(suspiciousPatterns, test)
      lower == LowerOf(keyValue)
      r1 == [isSuspicious |-> hits # <<>>, isBreached |-> FALSE,
             warnings |-> [i \in 1..Len(hits) |->
                             <<"Key matches suspicious pattern: ", hits[i]>>],
             severity |-> IF hits # <<>> THEN "warning" ELSE "safe"]
      r2 == IF \/ SeqIncludes(lower, <<"t", "e", "s", "t">>)
               \/ SeqIncludes(lower, <<"d", "e", "m", "o">>)
            THEN [r1 EXCEPT !.warnings = Append(@, <<"This appears to be a test/demo key">>),
                            !.severity = "warning"]
            ELSE r1
      r3 == IF Len(keyValue) < 16
            THEN [r2 EXCEPT !.isSuspicious = TRUE,
                            !.warnings = Append(@, <<"Key is suspiciously short (< 16 characters)">>),
                            !.severity = "warning"]
            ELSE r2
      r4 == IF isWeakKey(keyValue)
            THEN [r3 EXCEPT !.isSuspicious = TRUE,
                            !.warnings = Append(@, <<"Key appears to be weak or commonly used">>),
                            !.severity = "danger"]
            ELSE r3
      prefix == SubSeq(keyValue, 1, Min(10, Len(keyValue)))
      r5 == IF prefix \in known
            THEN [r4 EXCEPT !.isBreached = TRUE,
                            !.warnings = Append(@, <<"CRITICAL: This key prefix matches a known breach!">>),
                            !.severity = "danger"]
            ELSE r4
  IN IF LowEntropy(keyValue)
     THEN [r5 EXCEPT !.isSuspicious = TRUE,
                     !.warnings = Append(@, <<"Key has low entropy (not random enough)">>),
                     !.severity = "warning"]
     ELSE r5

\* The key values checked and the prefixes reported as breached.
BreachKeys ==
  {<<"P", "a", "s", "s", "w", "o", "r", "d">>,
   <<"q", "w", "e", "r", "t", "y", "-", "8", "z", "x", "4", "l", "m", "2", "n", "p", "7", "v", "a", "t", "3">>,
   <<"s", "k", "-", "a", "1", "b", "2", "c", "3", "d", "4", "e", "5", "f", "6", "g", "7", "h", "8">>,
   <<"t", "e", "s", "t", "_", "k", "e", "y">>,
   <<"a", "a", "a", "a", "a", "a", "a", "a", "a", "a", "a", "a", "a", "a", "a", "a">>,
   <<"d", "e", "m", "o", "-", "4", "k", "9", "x", "2", "m", "7", "q", "1", "w", "8", "e", "5", "r", "3", "t">>,
   <<"x", "y", "z", "1", "2", "3", "4", "5", "6", "7", "8", "9", "0">>}

BreachPrefixes ==
  {<<"s", "k", "-", "a", "1", "b", "2", "c", "3", "d">>,
   <<"a", "a", "a", "a", "a", "a", "a", "a", "a", "a">>,
   <<"P", "a", "s", "s", "w", "o", "r", "d">>,
   <<"q", "w", "e", "r", "t", "y", "-", "8", "z", "x">>}

addBreachedPrefix(prefix) ==
  /\ knownBreachedPrefixes' = knownBreachedPrefixes \cup {prefix}
  /\ resp' = Response("addBreachedPrefix", prefix, FALSE, "", 0)
  /\ UNCHANGED <<passwordHash, vaultData, isUnlocked, sessionKey, now,
                 autoLockAlarm, checkAlarm, nextId, lastAuth, settingsAt, procs,
                 base, fileVars>>

checkKey(keyValue) ==
  /\ resp' = Response("checkKey", keyValue, FALSE, "",
                      BD_checkKey(keyValue, knownBreachedPrefixes))
  /\ UNCHANGED <<passwordHash, vaultData, isUnlocked, sessionKey, now,
                 autoLockAlarm, checkAlarm, nextId, lastAuth, settingsAt, procs,
                 base, fileVars, knownBreachedPrefixes>>

NextBreach ==
  \/ \E prefix \in BreachPrefixes : addBreachedPrefix(prefix)
  \/ \E keyValue \in BreachKeys : checkKey(keyValue)

SpecBreach == Init /\ [][NextBreach]_vars

\* C40 (breach severity is never downgraded): in checkKey's result the
\* severity is 'danger' whenever isBreached is true or the key matched the
\* weak-key list, and it is 'safe' only when there is no warning.
C40_SeverityKept ==
  resp.op = "checkKey" =>
    /\ (resp.val.isBreached \/ isWeakKey(resp.arg)) => resp.val.severity = "danger"
    /\ resp.val.severity = "safe" => resp.val.warnings = <<>>

====
